---- MODULE Spec2Model ----
(***************************************************************************)
(* A model of the reactive core of lonkang/vue2-source-code: Dep, Watcher, *)
(* defineReactive, computed properties, the scheduler and the parts of the *)
(* component lifecycle that drive them.                                    *)
(*                                                                         *)
(* JavaScript runs every handler to completion on one thread, so each      *)
(* action below is one whole top-level call made by application code (a    *)
(* write, a read, $watch, $mount, the scheduler's microtask).  The nested  *)
(* synchronous calls inside it (setter -> notify -> update -> run -> get   *)
(* -> getter -> ...) are operators that take the machine state as a record *)
(* and return the next record.                                             *)
(***************************************************************************)
EXTENDS Integers, Sequences, FiniteSets, TLC

VARIABLES
  val,          \* the closure variable `val` of defineReactive, per reactive key
  subs,         \* Dep.subs, per Dep
  target,       \* Dep.target
  targetStack,  \* targetStack of dep.js
  ws,           \* the Watcher objects, indexed by Watcher.id (id = ++uid)
  vms,          \* the component instances
  queue,        \* scheduler: pending watchers
  has,          \* scheduler: ids of queued watchers
  waiting,      \* scheduler: a flush has been scheduled on the microtask queue
  flushing,     \* scheduler: the flush is running
  index,        \* scheduler: position of the watcher being run
  circular,     \* scheduler: runs of each watcher in the current flush
  heap,         \* the containers of the application: items, __ob__
  childOb,      \* the closure variable `childOb` of defineReactive, per key
  ret,          \* the value returned by the last call
  trace,        \* what the last top-level call did, in order (observation only)
  op,           \* the last top-level call and its arguments (observation only)
  hist,         \* counters over several calls (observation only)
  dom           \* the host document and the vnodes of the patch function

vars == <<val, subs, target, targetStack, ws, vms, queue, has, waiting,
          flushing, index, circular, heap, childOb, ret, trace, op, hist,
          dom>>

----------------------------------------------------------------------------
(* Bounds of the model *)

MaxNum == 1          \* application code writes the numbers 0..MaxNum (and NaN)
MaxWatchers == 3     \* watchers that may exist at once
MaxLen == 2          \* length of the array of the root instance's data

(* Program constants *)

NoTarget == 0            \* Dep.target = null
MAX_UPDATE_COUNT == 100  \* scheduler threshold

----------------------------------------------------------------------------
(* JavaScript values *)

Undef == [t |-> "undefined"]
NaN == [t |-> "NaN"]
Num(n) == [t |-> "number", n |-> n]

\* a reference to the container o
Ref(o) == [t |-> "object", o |-> o]

Nums == {Num(n) : n \in 0..MaxNum}
Written == Nums \cup {NaN}

\* x === y
StrictEq(x, y) == x = y /\ x # NaN

\* isObject(v): typeof v === 'object' && v !== null
isObject(v) == v.t = "object"

\* isUndef(v): v === undefined || v === null
isUndef(v) == v.t = "undefined"

\* isPrimitive(v): a string, a number, a symbol or a boolean
isPrimitive(v) == v.t \in {"number", "NaN"}

\* a property name
Key(k) == [t |-> "string", k |-> k]

\* isValidArrayIndex(key): the numbers of the model are integers >= 0
isValidArrayIndex(key) == key.t = "number"

\* the completion of a call that threw the exception e
Throw(e) == [t |-> "throw", e |-> e]

\* the call that led to s threw
Thrown(s) == s.ret.t = "throw"

\* x + y on numbers, NaN and undefined
Plus(x, y) == IF x.t = "number" /\ y.t = "number" THEN Num(x.n + y.n) ELSE NaN

----------------------------------------------------------------------------
(* The objects of the model *)

\* keys: a, b, xs of the root instance's data; n, the prop of the child;
\* p, the key that application code adds to obj
Keys == {"a", "b", "n", "xs", "p"}

\* containers: data, the object that the data option of the root instance
\* holds; list, the array of data.xs; obj = {}; frozen = Object.freeze({});
\* vn, a VNode that application code made.  Each may get an Observer, whose
\* dep is named after the container
Objs == {"data", "list", "obj", "frozen", "vn"}
Deps == Keys \cup Objs

\* no Observer
NoOb == "none"
VmIds == {"P", "C", "G"}

\* no parent instance, no child component
NoParent == "none"

\* the component definitions.  P, the root:  data {a, b, xs}, computed {sum},
\* methods, and by its options  watch {a: rec}  and  el ; C: props {n};
\* G: no option.  P's template holds C, C's template may hold G
HasProps(vm) == vm = "C"
HasMethods(vm) == vm = "P"
HasData(vm) == vm = "P"
HasComputed(vm) == vm = "P"

Ev(e, w, k, x, y) == [e |-> e, w |-> w, k |-> k, x |-> x, y |-> y]

log(s, e, w, k, x, y) == [s EXCEPT !.trace = Append(@, Ev(e, w, k, x, y))]

\* a user function throws:  throw new Error()
raise(s, info) ==
  [log(s, "throw", 0, info, Undef, Undef) EXCEPT !.ret = Throw("Error")]

\* handleError(e, vm, info): the error goes to the error handler, which
\* reports it, and the catch clause completes normally
handleError(s1, info) ==
  log([s1 EXCEPT !.ret = Undef], "error", 0, info, s1.ret, Undef)

\* remove(arr, item) of shared/util: drops the first occurrence
RECURSIVE remove(_, _)
remove(arr, item) ==
  IF arr = <<>> THEN <<>>
  ELSE IF Head(arr) = item THEN Tail(arr)
  ELSE <<Head(arr)>> \o remove(Tail(arr), item)

Range(f) == {f[i] : i \in DOMAIN f}

----------------------------------------------------------------------------
(* dep.js: Dep and the target stack *)

pushTarget(s, t) ==
  [s EXCEPT !.targetStack = Append(@, t), !.target = t]

\* popTarget that leaves Dep.target as it is
popTarget_keepTarget(s) ==
  LET n == Len(s.targetStack)
  IN [s EXCEPT !.targetStack = IF n = 0 THEN <<>> ELSE SubSeq(@, 1, n - 1)]

popTarget(s) ==
  LET n == Len(s.targetStack)
      st == IF n = 0 THEN <<>> ELSE SubSeq(s.targetStack, 1, n - 1)
  IN [s EXCEPT !.targetStack = st,
               !.target = IF st = <<>> THEN NoTarget ELSE st[Len(st)]]

addSub(s, d, w) == [s EXCEPT !.subs[d] = Append(@, w)]

removeSub(s, d, w) == [s EXCEPT !.subs[d] = remove(@, w)]

\* Watcher.addDep without the test of depIds
addDep_always(s, w, d) ==
  IF d \notin s.ws[w].newDepIds
  THEN addSub([s EXCEPT !.ws[w].newDepIds = @ \cup {d},
                        !.ws[w].newDeps = Append(@, d)], d, w)
  ELSE s

\* Watcher.addDep
addDep(s, w, d) ==
  IF d \notin s.ws[w].newDepIds
  THEN LET s1 == [s EXCEPT !.ws[w].newDepIds = @ \cup {d},
                           !.ws[w].newDeps = Append(@, d)]
       IN IF d \notin s.ws[w].depIds THEN addSub(s1, d, w) ELSE s1
  ELSE s

\* Dep.depend
Dep_depend(s, d) ==
  IF s.target # NoTarget THEN addDep(s, s.target, d) ELSE s

\* Watcher.cleanupDeps without  dep.removeSub(this)
cleanupLoop_keepSubs(s, w, i) == s

\* Watcher.cleanupDeps, its loop over this.deps
RECURSIVE cleanupLoop(_, _, _)
cleanupLoop(s, w, i) ==
  IF i = 0 THEN s
  ELSE LET dep == s.ws[w].deps[i]
       IN cleanupLoop(IF dep \notin s.ws[w].newDepIds
                      THEN removeSub(s, dep, w) ELSE s, w, i - 1)

cleanupDeps(s, w) ==
  LET s1 == cleanupLoop(s, w, Len(s.ws[w].deps))
  IN [s1 EXCEPT !.ws[w].depIds = s1.ws[w].newDepIds,
                !.ws[w].newDepIds = {},
                !.ws[w].deps = s1.ws[w].newDeps,
                !.ws[w].newDeps = <<>>]

----------------------------------------------------------------------------
(* observer/index.js: Observer and observe *)

RECURSIVE observe(_, _), observeArray(_, _, _)

RECURSIVE defineReactive(_, _, _, _), walk(_, _, _)

\* new Observer(value): def(value, '__ob__', this), then observeArray for an
\* array, walk for an object
Observer(s, o) ==
  LET s1 == log([s EXCEPT !.heap[o].ob = TRUE], "Observer", 0, o, Undef, Undef)
  IN IF s1.heap[o].isArray
     THEN observeArray(s1, s1.heap[o].items, 1)
     ELSE walk(s1, o, 1)

\* Observer.walk: defineReactive(obj, keys[i]) for every key of the object
walk(s, o, i) ==
  IF i > Len(s.heap[o].keys) THEN s
  ELSE walk(defineReactive(s, o, s.heap[o].keys[i], s.val[s.heap[o].keys[i]]),
            o, i + 1)

\* observe that does not look for an existing Observer
observe_noCheck(s, value) ==
  IF ~isObject(value) \/ s.heap[value.o].isVNode THEN s
  ELSE IF s.heap[value.o].extensible THEN Observer(s, value.o)
  ELSE s

\* observe(value): nothing for a primitive or a VNode, the existing
\* Observer if there is one, a new one for an extensible array or plain
\* object (every container of the model but the VNode is one of the two,
\* none is a Vue instance)
observe(s, value) ==
  IF ~isObject(value) \/ s.heap[value.o].isVNode THEN s
  ELSE IF s.heap[value.o].ob THEN s
  ELSE IF s.heap[value.o].extensible THEN Observer(s, value.o)
  ELSE s

\* if (asRootData && ob) ob.vmCount++
countVm(s, o) ==
  IF s.heap[o].ob THEN [s EXCEPT !.heap[o].vmCount = @ + 1] ELSE s

\* observe(value, true /* asRootData */)
observeRoot(s, value) == countVm(observe(s, value), value.o)

\* Observer.observeArray
observeArray(s, items, i) ==
  IF i > Len(items) THEN s
  ELSE observeArray(observe(s, items[i]), items, i + 1)

\* the Observer that observe(value) returned
ObOf(s, value) ==
  IF isObject(value) /\ s.heap[value.o].ob THEN value.o ELSE NoOb

\* dependArray
RECURSIVE dependArray(_, _, _)
dependArray(s, value, i) ==
  IF i > Len(value) THEN s
  ELSE LET e == value[i]
           s1 == IF isObject(e) /\ s.heap[e.o].ob THEN Dep_depend(s, e.o)
                 ELSE s
           s2 == IF isObject(e) /\ s.heap[e.o].isArray
                 THEN dependArray(s1, s.heap[e.o].items, 1) ELSE s1
       IN dependArray(s2, value, i + 1)

----------------------------------------------------------------------------
(* observer/index.js, watcher.js, state.js, lifecycle.js: the calls that   *)
(* invoke one another                                                      *)

RECURSIVE traverse(_, _), traverseItems(_, _, _), traverseKeys(_, _, _)

RECURSIVE reactiveSetter(_, _, _), notifyLoop(_, _, _), update(_, _),
          run(_, _), get(_, _), Getter(_, _), Callback(_, _, _, _),
          computedGetter(_, _), newWatcher(_, _, _, _, _, _),
          Vue_update(_, _, _), componentInit(_, _, _, _),
          mountComponent(_, _), Vue_init_child(_, _, _, _), Vue_destroy(_, _)

\* reactiveGetter of defineReactive
reactiveGetter(s, k) ==
  LET value == s.val[k]
      s1 == IF s.target # NoTarget
            THEN LET d1 == Dep_depend(s, k)
                 IN IF s.childOb[k] # NoOb
                    THEN LET d2 == Dep_depend(d1, s.childOb[k])
                         IN IF isObject(value) /\ s.heap[value.o].isArray
                            THEN dependArray(d2, s.heap[value.o].items, 1)
                            ELSE d2
                    ELSE d1
            ELSE s
  IN [s1 EXCEPT !.ret = value]

\* childOb = the Observer that observe(newVal) returned
setChildOb(s, k, newVal) == [s EXCEPT !.childOb[k] = ObOf(s, newVal)]

\* val = newVal; childOb = !shallow && observe(newVal)
assign(s, k, newVal) ==
  setChildOb(observe([s EXCEPT !.val[k] = newVal], newVal), k, newVal)

\* defineReactive(obj, key, val): the key becomes an accessor with a Dep of
\* its own; childOb = !shallow && observe(val)
defineReactive(s, o, k, v) ==
  assign([s EXCEPT !.heap[o].keys = IF k \in Range(@) THEN @ ELSE Append(@, k),
                   !.heap[o].reactive = @ \cup {k}], k, v)

\* Dep.notify: update() on a snapshot of subs (config.async, so no sort)
notifyLoop(s, snapshot, i) ==
  IF i > Len(snapshot) THEN s
  ELSE notifyLoop(update(s, snapshot[i]), snapshot, i + 1)

notify(s, d) == notifyLoop(log(s, "notify", 0, d, Undef, Undef), s.subs[d], 1)

\* reactiveSetter with  ||  for  &&  in the NaN test: a write is dropped
\* when either value is NaN
reactiveSetter_eitherNaN(s, k, newVal) ==
  LET value == s.val[k]
      s1 == log(s, "set", 0, k, newVal, value)
  IN IF StrictEq(newVal, value)
        \/ (~StrictEq(newVal, newVal) \/ ~StrictEq(value, value))
     THEN s1
     ELSE notify(assign(s1, k, newVal), k)

\* reactiveSetter without the NaN test
reactiveSetter_noNaN(s, k, newVal) ==
  LET value == s.val[k]
      s1 == log(s, "set", 0, k, newVal, value)
  IN IF StrictEq(newVal, value) THEN s1
     ELSE notify(assign(s1, k, newVal), k)

\* reactiveSetter of defineReactive
reactiveSetter(s, k, newVal) ==
  LET value == s.val[k]
      s1 == log(s, "set", 0, k, newVal, value)
  IN IF StrictEq(newVal, value)
        \/ (~StrictEq(newVal, newVal) /\ ~StrictEq(value, value))
     THEN s1
     ELSE notify(assign(s1, k, newVal), k)

\* obj[k], for a key of obj that application code added: the accessor that
\* defineReactive installed if there is one, the plain property otherwise
propGet(s, o, k) ==
  IF k \in s.heap[o].reactive THEN reactiveGetter(s, k)
  ELSE [s EXCEPT !.ret = IF k \in Range(s.heap[o].keys) THEN s.val[k]
                         ELSE Undef]

\* obj[k] = v in strict mode: the accessor's setter, a plain assignment, or
\* a TypeError when the object cannot take the key
propSet(s, o, k, v) ==
  IF k \in s.heap[o].reactive THEN reactiveSetter(s, k, v)
  ELSE IF k \in Range(s.heap[o].keys)
  THEN IF s.heap[o].extensible THEN [s EXCEPT !.val[k] = v]
       ELSE [s EXCEPT !.ret = Throw("TypeError")]
  ELSE IF s.heap[o].extensible
  THEN [s EXCEPT !.val[k] = v, !.heap[o].keys = Append(@, k)]
  ELSE [s EXCEPT !.ret = Throw("TypeError")]

\* the place where queueWatcher splices a watcher while the queue is being
\* flushed: after the watcher being run, before the first pending watcher
\* with a larger id
RECURSIVE splicePos(_, _, _)
splicePos(q, i, id) ==
  IF i > Len(q) \/ q[i] > id THEN i ELSE splicePos(q, i + 1, id)

InsertAt(q, i, x) == SubSeq(q, 1, i - 1) \o <<x>> \o SubSeq(q, i, Len(q))

\* scheduler.js: queueWatcher
queueWatcher(s, w) ==
  IF w \in s.has /\ ~s.flushing THEN s
  ELSE LET s1 == log([s EXCEPT !.has = @ \cup {w}, !.waiting = TRUE],
                     "queue", w, "", Undef, Undef)
       IN IF s.flushing
          THEN [s1 EXCEPT !.queue =
                  InsertAt(@, splicePos(@, s.index + 1, w), w)]
          ELSE [s1 EXCEPT !.queue = Append(@, w)]

\* Watcher.update that leaves a lazy watcher clean
update_noDirty(s, w) ==
  LET s1 == log(s, "update", w, "", Undef, Undef)
  IN IF s.ws[w].lazy THEN s1
     ELSE IF s.ws[w].sync THEN run(s1, w)
     ELSE queueWatcher(s1, w)

\* Watcher.update that hands a sync watcher to the scheduler
update_noSync(s, w) ==
  LET s1 == log(s, "update", w, "", Undef, Undef)
  IN IF s.ws[w].lazy THEN [s1 EXCEPT !.ws[w].dirty = TRUE]
     ELSE queueWatcher(s1, w)

\* Watcher.update
update(s, w) ==
  LET s1 == log(s, "update", w, "", Undef, Undef)
  IN IF s.ws[w].lazy THEN [s1 EXCEPT !.ws[w].dirty = TRUE]
     ELSE IF s.ws[w].sync THEN run(s1, w)
     ELSE queueWatcher(s1, w)

\* traverse(val): read every nested property of val, the elements of an
\* array and the keys of an object
traverse(s, v) ==
  IF ~isObject(v) THEN s
  ELSE IF s.heap[v.o].isArray THEN traverseItems(s, s.heap[v.o].items, 1)
  ELSE traverseKeys(s, v.o, 1)

traverseItems(s, items, i) ==
  IF i > Len(items) THEN s
  ELSE traverseItems(traverse(s, items[i]), items, i + 1)

\* traverse(val[keys[i]]) : s1 is the state that the read of the key left
traverseRead(s1) == traverse(s1, s1.ret)

traverseKeys(s, o, i) ==
  IF i > Len(s.heap[o].keys) THEN s
  ELSE traverseKeys(traverseRead(propGet(s, o, s.heap[o].keys[i])), o, i + 1)

\* Watcher.get, its finally block: if (this.deep) traverse(value) ; s1 is
\* the state that the getter left, s1.ret the value
\* Watcher.get, its catch clause: if (this.user) handleError(e, vm, ...)
\* else throw e ; the value stays undefined
catchGetter(s1, w) ==
  IF Thrown(s1) /\ s1.ws[w].user THEN handleError(s1, "getter") ELSE s1

deepen(s1, w) ==
  IF s1.ws[w].deep /\ ~Thrown(s1) THEN [traverse(s1, s1.ret) EXCEPT !.ret = s1.ret]
  ELSE s1

\* Watcher.get
get_rethrow(s, w) ==
  cleanupDeps(
    popTarget(
      deepen(Getter(log(pushTarget(s, w), "get", w, "", Undef, Undef), w),
             w)),
    w)

get(s, w) ==
  cleanupDeps(
    popTarget(
      deepen(
        catchGetter(
          Getter(log(pushTarget(s, w), "get", w, "", Undef, Undef), w), w),
        w)),
    w)

\* Watcher.run, the catch clause around the callback of a user watcher
catchCb(s2, w) ==
  IF Thrown(s2) /\ s2.ws[w].user THEN handleError(s2, "callback") ELSE s2

\* Watcher.run after  const value = this.get() : s1 is the state that get()
\* left, s1.ret the value it returned
invokeCb_keepOld(s1, w) ==
  IF ~StrictEq(s1.ret, s1.ws[w].value) \/ isObject(s1.ret) \/ s1.ws[w].deep
  THEN Callback(s1, w, s1.ret, s1.ws[w].value)
  ELSE s1

invokeCb_swapped(s1, w) ==
  IF ~StrictEq(s1.ret, s1.ws[w].value) \/ isObject(s1.ret) \/ s1.ws[w].deep
  THEN Callback([s1 EXCEPT !.ws[w].value = s1.ret], w,
                s1.ws[w].value, s1.ret)
  ELSE s1

\* Watcher.run that does not look at this.deep
invokeCb_noDeep(s1, w) ==
  IF ~StrictEq(s1.ret, s1.ws[w].value) \/ isObject(s1.ret)
  THEN Callback([s1 EXCEPT !.ws[w].value = s1.ret], w,
                s1.ret, s1.ws[w].value)
  ELSE s1

invokeCb(s1, w) ==
  IF Thrown(s1) THEN s1
  ELSE IF ~StrictEq(s1.ret, s1.ws[w].value) \/ isObject(s1.ret)
          \/ s1.ws[w].deep
  THEN catchCb(Callback([s1 EXCEPT !.ws[w].value = s1.ret], w,
                        s1.ret, s1.ws[w].value), w)
  ELSE s1

\* Watcher.run that forgets  this.value = value
run_keepOld(s, w) ==
  IF s.ws[w].active
  THEN invokeCb_keepOld(get(log(s, "run", w, "", Undef, Undef), w), w)
  ELSE s

\* Watcher.run that passes the arguments of the callback in the wrong order
run_swapped(s, w) ==
  IF s.ws[w].active
  THEN invokeCb_swapped(get(log(s, "run", w, "", Undef, Undef), w), w)
  ELSE s

\* run that does not look at active
run_always(s, w) == invokeCb(get(log(s, "run", w, "", Undef, Undef), w), w)

\* Watcher.run
run(s, w) ==
  IF s.ws[w].active
  THEN invokeCb(get(log(s, "run", w, "", Undef, Undef), w), w)
  ELSE s

\* this.value = this.get() : s1 is the state that get() left
setValue(s1, w) ==
  IF Thrown(s1) THEN s1 ELSE [s1 EXCEPT !.ws[w].value = s1.ret]

\* this.dirty = false
setClean(s, w) == IF Thrown(s) THEN s ELSE [s EXCEPT !.ws[w].dirty = FALSE]

\* Watcher.evaluate that leaves the watcher dirty
evaluate_stayDirty(s, w) == setValue(get(s, w), w)

\* Watcher.evaluate
evaluate(s, w) == setClean(setValue(get(s, w), w), w)

\* Watcher.depend
RECURSIVE Watcher_dependLoop(_, _, _)
Watcher_dependLoop(s, w, i) ==
  IF i = 0 THEN s
  ELSE Watcher_dependLoop(Dep_depend(s, s.ws[w].deps[i]), w, i - 1)

Watcher_depend(s, w) == Watcher_dependLoop(s, w, Len(s.ws[w].deps))

\* Watcher.teardown without  this.deps[i].removeSub(this)
teardownLoop_keepSubs(s, w, i) == s

\* Watcher.teardown, its loop: this.deps[i].removeSub(this)
RECURSIVE teardownLoop(_, _, _)
teardownLoop(s, w, i) ==
  IF i = 0 THEN s
  ELSE teardownLoop(removeSub(s, s.ws[w].deps[i], w), w, i - 1)

\* Watcher.teardown without  this.active = false
teardown_stayActive(s, w) ==
  IF s.ws[w].active
  THEN teardownLoop(
         IF ~s.vms[s.ws[w].vm]._isBeingDestroyed
         THEN [s EXCEPT !.vms[s.ws[w].vm]._watchers = remove(@, w)]
         ELSE s, w, Len(s.ws[w].deps))
  ELSE s

\* Watcher.teardown
teardown(s, w) ==
  IF s.ws[w].active
  THEN [teardownLoop(
          log(IF ~s.vms[s.ws[w].vm]._isBeingDestroyed
              THEN [s EXCEPT !.vms[s.ws[w].vm]._watchers = remove(@, w)]
              ELSE s, "teardown", w, "", Undef, Undef),
          w, Len(s.ws[w].deps))
          EXCEPT !.ws[w].active = FALSE]
  ELSE s

\* if (Dep.target) watcher.depend()
dependIfTarget(s, watcher) ==
  IF s.target # NoTarget /\ ~Thrown(s) THEN Watcher_depend(s, watcher) ELSE s

\* return watcher.value
returnValue(s, watcher) ==
  IF Thrown(s) THEN s ELSE [s EXCEPT !.ret = s.ws[watcher].value]

\* computedGetter without  watcher.depend()
computedGetter_noDepend(s, vm) ==
  LET watcher == s.vms[vm].sum
      s0 == log(s, "computed", watcher, "sum", Undef, Undef)
  IN IF watcher # 0
     THEN returnValue(IF s.ws[watcher].dirty THEN evaluate(s0, watcher)
                      ELSE s0, watcher)
     ELSE [s EXCEPT !.ret = Undef]

\* computedGetter of createComputedGetter, for the computed property of vm
computedGetter(s, vm) ==
  LET watcher == s.vms[vm].sum
      s0 == log(s, "computed", watcher, "sum", Undef, Undef)
  IN IF watcher # 0
     THEN returnValue(
            dependIfTarget(IF s.ws[watcher].dirty THEN evaluate(s0, watcher)
                           ELSE s0, watcher), watcher)
     ELSE [s EXCEPT !.ret = Undef]

\* computedGetter for the computed property  bad  of vm
computedGetterBad(s, vm) ==
  LET watcher == s.vms[vm].bad
      s0 == log(s, "computed", watcher, "bad", Undef, Undef)
  IN IF watcher # 0
     THEN returnValue(
            dependIfTarget(IF s.ws[watcher].dirty THEN evaluate(s0, watcher)
                           ELSE s0, watcher), watcher)
     ELSE [s EXCEPT !.ret = Undef]

VmVal(vm) == [t |-> "vm", id |-> vm]

\* user code of an instance with the reads option, in its hooks and in its
\* data function:  this.n ; the read is recorded with Dep.target
userRead(s2, vm) ==
  IF s2.vms[vm].reads
  THEN reactiveGetter(log(s2, "uses", s2.target, "n", VmVal(vm), Undef), "n")
  ELSE s2

\* the user's hooks: they record that they ran, then the user code
userHook(s1, vm, hook) ==
  userRead(log(s1, "hook", 0, hook, VmVal(vm), Undef), vm)

\* invokeWithErrorHandling(handlers[i], vm, null, vm, info): the handler
\* runs in a try whose catch calls handleError; the hooks of an instance
\* with the throws option throw
invokeWithErrorHandling(s1, vm, hook) ==
  IF s1.vms[vm].throws
  THEN [handleError(raise(userHook(s1, vm, hook), "hook"), "hook")
          EXCEPT !.ret = s1.ret]
  ELSE [userHook(s1, vm, hook) EXCEPT !.ret = s1.ret]

\* callHook without pushTarget() and popTarget()
callHook_noTarget(s, vm, hook) == invokeWithErrorHandling(s, vm, hook)

\* callHook: pushTarget(), the handlers, popTarget()
callHook(s, vm, hook) ==
  popTarget(invokeWithErrorHandling(pushTarget(s, NoTarget), vm, hook))

\* the options of a Watcher
Options(user, lazy, sync, before) ==
  [deep |-> FALSE, user |-> user, lazy |-> lazy, sync |-> sync,
   before |-> before]

\* Watcher.constructor; the new watcher's id is ++uid
newWatcher(s, vm, expOrFn, cb, options, isRenderWatcher) ==
  LET id == Len(s.ws) + 1
      w == [vm |-> vm, getter |-> expOrFn, cb |-> cb,
            deep |-> options.deep, user |-> options.user,
            lazy |-> options.lazy, sync |-> options.sync,
            before |-> options.before,
            active |-> TRUE, dirty |-> options.lazy,
            deps |-> <<>>, newDeps |-> <<>>, depIds |-> {}, newDepIds |-> {},
            value |-> Undef]
      s1 == [s EXCEPT !.vms[vm]._watcher = IF isRenderWatcher THEN id ELSE @,
                      !.vms[vm]._watchers = Append(@, id),
                      !.ws = Append(@, w)]
      s2 == log(s1, "new", id, "", Undef, Undef)
  IN IF options.lazy THEN [s2 EXCEPT !.ret = Undef]
     ELSE setValue(get(s2, id), id)

\* Vue.prototype._render: the render functions of the model.
\* P renders  h('div', [this.sum, h(Child, {props: {n: this.a}})]) , and
\* with the vif option  h('div', [this.sum, this.b === 1 ? undefined :
\* h(Child, {props: {n: this.a}})]) ;
\* C renders  h('span', this.n) , or throws after it read n, by its option,
\* and then _render reports the error and goes on with an empty vnode;
\* G renders  h('i')
RenderThrows(s, vm) == vm = "C" /\ s.vms[vm].throws

\* the component whose placeholder the rendered tree of vm holds
TreeChild(s, vm) ==
  IF RenderThrows(s, vm) THEN NoParent
  ELSE IF s.vms[vm].vif /\ StrictEq(s.val["b"], Num(1)) THEN NoParent
  ELSE s.vms[vm].child

\* the tree that vm rendered: x the value it shows, child the component
\* whose placeholder it holds
VNode(vm, x, child) == [t |-> "vnode", of |-> vm, x |-> x, child |-> child]

returnVNode(s, vm) == [s EXCEPT !.ret = VNode(vm, s.ret, TreeChild(s, vm))]

\* this.b === 1 ? undefined : h(Child, ...)  of the vif option: the read of b
renderIf(s1, vm) == IF s1.vms[vm].vif THEN reactiveGetter(s1, "b") ELSE s1

\* h(Child, {props: {n: this.a}}) , when the tree holds the child
renderChild(s2, vm) ==
  IF TreeChild(s2, vm) = NoParent THEN [s2 EXCEPT !.ret = Undef]
  ELSE reactiveGetter(s2, "a")

Vue_render(s, vm) ==
  CASE vm = "P" ->
         returnVNode(renderChild(renderIf(computedGetter(s, "P"), "P"), "P"),
                     "P")
    [] vm = "C" ->
         returnVNode(IF RenderThrows(s, vm)
                     THEN handleError(raise(reactiveGetter(s, "n"), "render"),
                                      "render")
                     ELSE reactiveGetter(s, "n"), "C")
    [] vm = "G" -> returnVNode([s EXCEPT !.ret = Undef], "G")

\* vm._update(vm._render(), hydrating) : s1 is the state that _render left,
\* s1.ret the vnode it returned
updateWith(s1, vm) == Vue_update(s1, vm, s1.ret)

returnUndef(s) == [s EXCEPT !.ret = Undef]

\* function () { if (this.b === 1) throw new Error(); return this.b } :
\* s1 is the state after the read of b
boom(s1) == IF StrictEq(s1.ret, Num(1)) THEN raise(s1, "getter") ELSE s1

\* function () { return this.a === 0 ? this.b : this.a } : s1 is the state
\* after the first read of a
cond(s1) ==
  IF StrictEq(s1.ret, Num(0)) THEN reactiveGetter(s1, "b")
  ELSE reactiveGetter(s1, "a")

\* the user's getters: dotted paths (parsePath), the computed property's
\* function, and updateComponent of mountComponent
Getter(s, w) ==
  LET g == s.ws[w].getter
  IN CASE g \in Keys \ {"p"} -> reactiveGetter(s, g)
       [] g = "p" -> propGet(s, "obj", "p")
       [] g = "sum" -> computedGetter(s, s.ws[w].vm)
       [] g = "bad" -> computedGetterBad(s, s.ws[w].vm)
       [] g = "boom" -> boom(reactiveGetter(s, "b"))
       [] g = "cond" -> cond(reactiveGetter(s, "a"))
       [] g = "a+b" -> LET s1 == reactiveGetter(s, "a")
                           s2 == reactiveGetter(s1, "b")
                       IN [s2 EXCEPT !.ret = Plus(s1.ret, s2.ret)]
       [] g = "updateComponent" ->
            returnUndef(updateWith(Vue_render(s, s.ws[w].vm), s.ws[w].vm))

\* the user's callbacks: "boomCb" throws, "rec" only observes its
\* arguments, "toggleA"
\* assigns  this.a = this.a === 0 ? 1 : 0 , "readN" reads this.n (the read
\* is recorded with Dep.target), "noop" is noop of shared/util
Callback(s, w, value, oldValue) ==
  LET c == s.ws[w].cb
      s1 == IF c = "noop" THEN s ELSE log(s, "cb", w, "", value, oldValue)
  IN IF c = "boomCb" THEN raise(s1, "callback")
     ELSE IF c = "readN"
     THEN reactiveGetter(log(s1, "uses", s1.target, "n",
                             VmVal(s1.ws[w].vm), Undef), "n")
     ELSE IF c = "toggleA"
     THEN LET s2 == reactiveGetter(s1, "a")
          IN reactiveSetter(s2, "a",
                            IF StrictEq(s2.ret, Num(0)) THEN Num(1) ELSE Num(0))
     ELSE s1

\* mountComponent that calls the mounted hook of every instance
mounted_always(s, vm) ==
  callHook([s EXCEPT !.vms[vm]._isMounted = TRUE], vm, "mounted")

\* mountComponent, after the render watcher: if (vm.$vnode == null)
\* { vm._isMounted = true; callHook(vm, 'mounted') }
mounted(s, vm) ==
  IF s.vms[vm].parent = NoParent
  THEN callHook([s EXCEPT !.vms[vm]._isMounted = TRUE], vm, "mounted")
  ELSE s

\* mountComponent whose render watcher has no `before` option
mountComponent_noBefore(s, vm) ==
  mounted(newWatcher(callHook(s, vm, "beforeMount"), vm, "updateComponent",
                     "noop", Options(FALSE, FALSE, FALSE, FALSE), TRUE), vm)

\* mountComponent
mountComponent(s, vm) ==
  mounted(newWatcher(callHook(s, vm, "beforeMount"), vm, "updateComponent",
                     "noop", Options(FALSE, FALSE, FALSE, TRUE), TRUE), vm)

\* componentVNodeHooks.init: createComponentInstanceForVnode(vnode,
\* activeInstance), then child.$mount(undefined)
componentInit(s, c, vnode, activeInstance) ==
  mountComponent(Vue_init_child(s, c, activeInstance, vnode.x), c)

\* componentVNodeHooks.insert
componentInsert(s, c) ==
  IF ~s.vms[c]._isMounted
  THEN callHook([s EXCEPT !.vms[c]._isMounted = TRUE], c, "mounted")
  ELSE s

\* updateChildComponent: props[key] = validateProp(key, ...)
updateChildComponent(s, c, propsData) ==
  IF HasProps(c) THEN reactiveSetter(s, "n", propsData) ELSE s

\* componentVNodeHooks.prepatch
componentPrepatch(s, c, vnode) == updateChildComponent(s, c, vnode.x)

\* const insertedVnodeQueue = []  of one call of patch: s.iq holds the
\* queues of the calls of patch that have not returned
newQueue(s) == [s EXCEPT !.iq = Append(@, <<>>)]

\* initComponent: push vnode.data.pendingInsert onto the queue, then the
\* vnode itself (invokeCreateHooks, or the else branch of isPatchable)
initComponent(s1, c) ==
  [s1 EXCEPT !.iq[Len(s1.iq)] = @ \o s1.vms[c].pendingInsert \o <<c>>,
             !.vms[c].pendingInsert = <<>>]

\* insert(parentElm, vnode.elm, refElm) of createComponent: the element of
\* the child goes under the element that holds its placeholder
insertElm(s1, c, vm) == log(s1, "insert", 0, c, VmVal(vm), Undef)

\* createComponent(vnode, insertedVnodeQueue, parentElm, refElm)
createComponent(s, vm, c, vnode) ==
  insertElm(initComponent(componentInit(s, c, vnode, vm), c), c, vm)

\* createChildren of createElm: the tree of vm holds the placeholder of its
\* child component, if it has one
createChildren(s, vm, vnode) ==
  IF vnode.child # NoParent
  THEN createComponent(s, vm, vnode.child, vnode) ELSE s

\* insert(parentElm, vnode.elm, refElm) at the end of createElm: patch found
\* a real element (vm.$el) and so a parent element for the new root element
insertRoot(s1, vm) ==
  IF s1.vms[vm].el
  THEN log(s1, "insert", 0, vm, [t |-> "element", id |-> "body"], Undef)
  ELSE s1

\* the loop of invokeInsertHook: queue[i].data.hook.insert(queue[i])
RECURSIVE insertLoop(_, _, _)
insertLoop(s, q, i) ==
  IF i > Len(q) THEN s ELSE insertLoop(componentInsert(s, q[i]), q, i + 1)

\* invokeInsertHook(vnode, insertedVnodeQueue, isInitialPatch); the patch
\* is initial when there was no old vnode and no element; the queue of the
\* call goes when patch returns
invokeInsertHook(s1, vm) ==
  LET q == s1.iq[Len(s1.iq)]
      s2 == [s1 EXCEPT !.iq = SubSeq(@, 1, Len(@) - 1)]
  IN IF ~s1.vms[vm].el /\ s1.vms[vm].parent # NoParent
     THEN [s2 EXCEPT !.vms[vm].pendingInsert = q]
     ELSE insertLoop(s2, q, 1)

\* a new instance of the component c, for a new placeholder
fresh(s, c) ==
  [s EXCEPT !.vms[c].inited = FALSE, !.vms[c]._isMounted = FALSE,
            !.vms[c]._isDestroyed = FALSE,
            !.vms[c]._isBeingDestroyed = FALSE, !.vms[c]._watcher = 0,
            !.vms[c]._watchers = <<>>, !.vms[c]._vnode = Undef,
            !.vms[c].parent = NoParent, !.vms[c].children = <<>>,
            !.vms[c].pendingInsert = <<>>, !.vms[c].done = FALSE]

\* invokeInsertHook of a patch that is not the initial one
insertNow(s2) ==
  insertLoop([s2 EXCEPT !.iq = SubSeq(@, 1, Len(@) - 1)], s2.iq[Len(s2.iq)],
             1)

\* componentVNodeHooks.destroy
componentDestroy(s, c) ==
  IF ~s.vms[c]._isDestroyed THEN Vue_destroy(s, c) ELSE s

\* patch(oldVnode, vnode): with no old vnode createElm makes the tree;
\* with one, patchVnode prepatches the placeholder of the child that both
\* trees hold, removeVnodes invokes the destroy hook of a placeholder that
\* only the old tree holds, and addVnodes creates the component of a
\* placeholder that only the new tree holds
patch(s1, vm, prevVnode, vnode) ==
  IF prevVnode = Undef
  THEN invokeInsertHook(
         insertRoot(createChildren(newQueue(s1), vm, vnode), vm), vm)
  ELSE IF prevVnode.child # NoParent /\ vnode.child # NoParent
  THEN componentPrepatch(s1, vnode.child, vnode)
  ELSE IF prevVnode.child # NoParent
  THEN componentDestroy(s1, prevVnode.child)
  ELSE IF vnode.child # NoParent
  THEN insertNow(createChildren(newQueue(fresh(s1, vnode.child)), vm, vnode))
  ELSE s1

\* Vue.prototype._update: vm._vnode = vnode, then vm.__patch__
Vue_update(s, vm, vnode) ==
  patch([s EXCEPT !.vms[vm]._vnode = vnode], vm, s.vms[vm]._vnode, vnode)

\* invokeDestroyHook(vnode): the destroy hook of the placeholder that the
\* tree of vm holds
invokeDestroyHook(s, vm) ==
  IF s.vms[vm]._vnode.child # NoParent
  THEN componentDestroy(s, s.vms[vm]._vnode.child) ELSE s

\* vm.__patch__(vm._vnode, null)
patchNull(s1, vm) ==
  IF s1.vms[vm]._vnode # Undef THEN invokeDestroyHook(s1, vm) ELSE s1

\* $destroy: vm._isBeingDestroyed = true
beingDestroyed(s1, vm) == [s1 EXCEPT !.vms[vm]._isBeingDestroyed = TRUE]

\* $destroy: remove(parent.$children, vm)
removeChild(s1, vm) ==
  IF s1.vms[vm].parent # NoParent
     /\ ~s1.vms[s1.vms[vm].parent]._isBeingDestroyed
  THEN [s1 EXCEPT !.vms[s1.vms[vm].parent].children = remove(@, vm)]
  ELSE s1

\* $destroy: if (vm._watcher) vm._watcher.teardown()
teardownRender(s1, vm) ==
  IF s1.vms[vm]._watcher # 0 THEN teardown(s1, s1.vms[vm]._watcher) ELSE s1

\* $destroy: let i = vm._watchers.length; while (i--) _watchers[i].teardown()
RECURSIVE teardownAll(_, _, _)
teardownAll(s, vm, i) ==
  IF i = 0 THEN s
  ELSE teardownAll(teardown(s, s.vms[vm]._watchers[i]), vm, i - 1)

teardownWatchers(s1, vm) == teardownAll(s1, vm, Len(s1.vms[vm]._watchers))

\* $destroy: if (vm._data.__ob__) vm._data.__ob__.vmCount--
vmCountDown(s1, vm) ==
  IF HasData(vm) /\ s1.heap["data"].ob
  THEN [s1 EXCEPT !.heap["data"].vmCount = @ - 1] ELSE s1

\* $destroy: vm._isDestroyed = true
markDestroyed(s1, vm) ==
  log([s1 EXCEPT !.vms[vm]._isDestroyed = TRUE], "isDestroyed", 0, "",
      VmVal(vm), Undef)

\* the beforeDestroy hook of an instance with the again option:
\* if (!this.done) { this.done = true; this.$destroy() } , after the user
\* code of every hook; s2 is the state that pushTarget() left
userAgain(s2, vm) ==
  Vue_destroy([userHook(s2, vm, "beforeDestroy")
                 EXCEPT !.vms[vm].done = TRUE], vm)

\* callHook(vm, 'beforeDestroy') of $destroy
callBeforeDestroy(s, vm) ==
  IF s.vms[vm].again /\ ~s.vms[vm].done
  THEN popTarget([userAgain(pushTarget(s, NoTarget), vm)
                    EXCEPT !.ret = s.ret])
  ELSE callHook(s, vm, "beforeDestroy")

\* $destroy that tears no watcher down
Vue_destroy_noTeardown(s, vm) ==
  IF s.vms[vm]._isBeingDestroyed THEN s
  ELSE callHook(
         patchNull(
           markDestroyed(
             vmCountDown(
               removeChild(
                 beingDestroyed(callBeforeDestroy(s, vm), vm),
                 vm), vm), vm), vm),
         vm, "destroyed")

\* Vue.prototype.$destroy
Vue_destroy(s, vm) ==
  IF s.vms[vm]._isBeingDestroyed THEN s
  ELSE callHook(
         patchNull(
           markDestroyed(
             vmCountDown(
               teardownWatchers(
                 teardownRender(
                   removeChild(
                     beingDestroyed(callBeforeDestroy(s, vm), vm),
                     vm), vm), vm), vm), vm), vm),
         vm, "destroyed")

----------------------------------------------------------------------------
(* scheduler.js *)

\* a flush that does not sort its queue
sortById_none(q) == q

\* queue.sort((a, b) => a.id - b.id)
RECURSIVE insertSorted(_, _)
insertSorted(q, x) ==
  IF q = <<>> THEN <<x>>
  ELSE IF x < Head(q) THEN <<x>> \o q
  ELSE <<Head(q)>> \o insertSorted(Tail(q), x)

RECURSIVE sortById(_)
sortById(q) ==
  IF q = <<>> THEN <<>> ELSE insertSorted(sortById(Tail(q)), Head(q))

\* the `before` option of the render watcher (mountComponent)
before(s, w) ==
  LET vm == s.ws[w].vm
  IN IF s.vms[vm]._isMounted /\ ~s.vms[vm]._isDestroyed
     THEN callHook(s, vm, "beforeUpdate") ELSE s

\* updatedQueue: the entries of the queue that are render watchers
updatedQueue(s) ==
  LET q == s.queue
      I == {i \in DOMAIN q : s.vms[s.ws[q[i]].vm]._watcher = q[i]}
  IN [j \in 1..Cardinality(I) |->
        q[CHOOSE i \in I : Cardinality({k \in I : k <= i}) = j]]

\* callUpdatedHooks: the updated hook of the render watchers, last first
RECURSIVE callUpdatedHooks(_, _, _)
callUpdatedHooks(s, q, i) ==
  IF i = 0 THEN s
  ELSE LET w == q[i]
           vm == s.ws[w].vm
       IN callUpdatedHooks(
            IF s.vms[vm]._watcher = w /\ s.vms[vm]._isMounted
               /\ ~s.vms[vm]._isDestroyed
            THEN callHook(s, vm, "updated") ELSE s, q, i - 1)

resetSchedulerState(s) ==
  [s EXCEPT !.queue = <<>>, !.has = {}, !.index = 0,
            !.circular = [w \in {} |-> 0],
            !.waiting = FALSE, !.flushing = FALSE]

\* flushSchedulerQueue, before its loop: sort the queue by id
flushBegin(s) ==
  [s EXCEPT !.flushing = TRUE, !.queue = sortById(@), !.index = 1,
            !.circular = [w \in 1..Len(s.ws) |-> 0]]

\* flushSchedulerQueue, after its loop: the updated hooks, then the reset
flushEnd(s) ==
  LET q == updatedQueue(s)
  IN resetSchedulerState(callUpdatedHooks(s, q, Len(q)))

\* flushSchedulerQueue, the start of a pass
flushStart(s) == IF s.flushing THEN s ELSE flushBegin(s)

\* flushSchedulerQueue, the body of its loop: before() and run() of the
\* watcher at index
runNext(s) ==
  LET w == s.queue[s.index]
  IN run(IF s.ws[w].before THEN before(s, w) ELSE s, w)

\* flushSchedulerQueue, the end of a pass: the guard against an endless
\* update loop, the next index or the end of the flush
guard(s) ==
  LET w == s.queue[s.index]
      s3 == [s EXCEPT !.circular[w] = @ + 1]
  IN IF s3.circular[w] > MAX_UPDATE_COUNT
     THEN flushEnd(log(s3, "warn", w, "infinite update loop", Undef, Undef))
     ELSE IF s3.index + 1 > Len(s3.queue) THEN flushEnd(s3)
     ELSE [s3 EXCEPT !.index = @ + 1]

\* flushSchedulerQueue, one pass of its loop, for the watcher at index:
\* before(), run(), the guard against an endless update loop.  The first
\* pass is preceded by flushBegin, the last (the queue may have grown
\* while the watcher ran) is followed by flushEnd
flushSchedulerQueue(s) == guard(runNext(flushStart(s)))

----------------------------------------------------------------------------
(* observer/array.js: the mutation methods of an observed array *)

methodsToPatch ==
  {"push", "pop", "shift", "unshift", "splice", "sort", "reverse"}

\* the decimal digits of n, as UTF-16 code units
RECURSIVE digits(_)
digits(n) ==
  IF n < 10 THEN <<48 + n>> ELSE digits(n \div 10) \o <<48 + (n % 10)>>

\* String(v), as the sequence of its UTF-16 code units: "undefined",
\* "NaN", the digits of a number, "[object Object]", and for an array the
\* strings of its elements joined by ","
RECURSIVE toString(_, _), join(_, _, _)
toString(s, v) ==
  CASE v.t = "undefined" -> <<117, 110, 100, 101, 102, 105, 110, 101, 100>>
    [] v.t = "NaN" -> <<78, 97, 78>>
    [] v.t = "number" -> digits(v.n)
    [] v.t = "object" ->
         IF s.heap[v.o].isArray THEN join(s, s.heap[v.o].items, 1)
         ELSE <<91, 111, 98, 106, 101, 99, 116, 32,
                79, 98, 106, 101, 99, 116, 93>>

join(s, items, i) ==
  IF i > Len(items) THEN <<>>
  ELSE (IF i > 1 THEN <<44>> ELSE <<>>)
       \o (IF items[i] = Undef THEN <<>> ELSE toString(s, items[i]))
       \o join(s, items, i + 1)

\* a < b on strings: by code units
RECURSIVE StrLess(_, _)
StrLess(a, b) ==
  IF b = <<>> THEN FALSE
  ELSE IF a = <<>> THEN TRUE
  ELSE IF Head(a) # Head(b) THEN Head(a) < Head(b)
  ELSE StrLess(Tail(a), Tail(b))

\* the order of Array.prototype.sort without a comparator: undefined last,
\* the others by their strings
SortCompare(s, x, y) ==
  IF x = Undef THEN FALSE
  ELSE IF y = Undef THEN TRUE
  ELSE StrLess(toString(s, x), toString(s, y))

\* Array.prototype.sort is stable
RECURSIVE insertBy(_, _, _)
insertBy(s, q, x) ==
  IF q = <<>> THEN <<x>>
  ELSE IF SortCompare(s, Head(q), x) THEN <<Head(q)>> \o insertBy(s, Tail(q), x)
  ELSE <<x>> \o q

RECURSIVE sortItems(_, _)
sortItems(s, q) ==
  IF q = <<>> THEN <<>> ELSE insertBy(s, sortItems(s, Tail(q)), Head(q))

Min(a, b) == IF a < b THEN a ELSE b

\* the array that splice returns
Removed(items) == [t |-> "array", items |-> items]

\* original.apply(this, args): the native method (splice is called with
\* start >= 0 and deleteCount >= 0)
original(s, o, method, args) ==
  LET items == s.heap[o].items
      n == Len(items)
  IN CASE method = "push" ->
            [items |-> items \o args, result |-> Num(n + Len(args))]
       [] method = "unshift" ->
            [items |-> args \o items, result |-> Num(n + Len(args))]
       [] method = "pop" ->
            IF n = 0 THEN [items |-> items, result |-> Undef]
            ELSE [items |-> SubSeq(items, 1, n - 1), result |-> items[n]]
       [] method = "shift" ->
            IF n = 0 THEN [items |-> items, result |-> Undef]
            ELSE [items |-> Tail(items), result |-> Head(items)]
       [] method = "splice" ->
            LET start == Min(args[1].n, n)
                deleteCount == Min(args[2].n, n - start)
            IN [items |-> SubSeq(items, 1, start)
                          \o SubSeq(args, 3, Len(args))
                          \o SubSeq(items, start + deleteCount + 1, n),
                result |-> Removed(SubSeq(items, start + 1,
                                          start + deleteCount))]
       [] method = "sort" ->
            [items |-> sortItems(s, items), result |-> Ref(o)]
       [] method = "reverse" ->
            [items |-> IF n = 0 THEN <<>>
                       ELSE [i \in 1..n |-> items[n + 1 - i]],
             result |-> Ref(o)]

\* inserted: args for push and unshift, args.slice(2) for splice, nothing
\* for the others
inserted(method, args) ==
  CASE method \in {"push", "unshift"} -> args
    [] method = "splice" -> SubSeq(args, 3, Len(args))
    [] OTHER -> <<>>

\* return result
returning(s, result) == [s EXCEPT !.ret = result]

\* mutator without  if (inserted) ob.observeArray(inserted)
mutator_noObserve(s, o, method, args) ==
  LET r == original(s, o, method, args)
      s1 == log([s EXCEPT !.heap[o].items = r.items],
                "original", 0, method, Undef, Undef)
  IN returning(notify(s1, o), r.result)

\* mutator that notifies before it observes what was inserted
mutator_notifyFirst(s, o, method, args) ==
  LET r == original(s, o, method, args)
      s1 == log([s EXCEPT !.heap[o].items = r.items],
                "original", 0, method, Undef, Undef)
  IN returning(observeArray(notify(s1, o), inserted(method, args), 1),
               r.result)

\* mutator, the method of arrayMethods, called on the observed array o
mutator(s, o, method, args) ==
  LET r == original(s, o, method, args)
      s1 == log([s EXCEPT !.heap[o].items = r.items],
                "original", 0, method, Undef, Undef)
  IN returning(notify(observeArray(s1, inserted(method, args), 1), o),
               r.result)

----------------------------------------------------------------------------
(* observer/index.js: set *)

\* return val, unless the call has thrown
thenReturn(s, v) == IF Thrown(s) THEN s ELSE returning(s, v)

\* target.length = Math.max(target.length, key): the new slots are holes,
\* which read as undefined
setLength(s, o, n) ==
  IF n > Len(s.heap[o].items)
  THEN [s EXCEPT !.heap[o].items =
          @ \o [i \in 1..(n - Len(@)) |-> Undef]]
  ELSE s

\* target.splice(...args): the method of arrayMethods for an observed
\* array, the native method otherwise
splice(s, o, args) ==
  IF s.heap[o].ob THEN mutator(s, o, "splice", args)
  ELSE [s EXCEPT !.heap[o].items = original(s, o, "splice", args).items]

\* the warning of set for a target that is undefined, null or primitive
warnPrimitive(s, tgt) ==
  IF isUndef(tgt) \/ isPrimitive(tgt)
  THEN log(s, "warn", 0, "Cannot set reactive property on undefined, null, or primitive value",
           tgt, Undef)
  ELSE s

\* defineReactive(ob.value, key, val) without  ob.dep.notify()
addKey_noNotify(s, o, k, v) == defineReactive(s, o, k, v)

\* defineReactive(ob.value, key, val); ob.dep.notify()
addKey(s, o, k, v) == notify(defineReactive(s, o, k, v), o)

\* set, after its warning: `key in target` throws a TypeError when target is
\* not an object
setOn(s, tgt, key, v) ==
  IF isObject(tgt) /\ s.heap[tgt.o].isArray /\ isValidArrayIndex(key)
  THEN thenReturn(splice(setLength(s, tgt.o, key.n), tgt.o,
                         <<key, Num(1), v>>), v)
  ELSE IF ~isObject(tgt) THEN [s EXCEPT !.ret = Throw("TypeError")]
  ELSE IF key.k \in Range(s.heap[tgt.o].keys)
  THEN thenReturn(propSet(s, tgt.o, key.k, v), v)
  ELSE IF s.heap[tgt.o].ob /\ s.heap[tgt.o].vmCount > 0
  THEN returning(log(s, "warn", 0, "Avoid adding reactive properties to a Vue instance or its root $data",
                     tgt, Undef), v)
  ELSE IF ~s.heap[tgt.o].ob
  THEN thenReturn(propSet(s, tgt.o, key.k, v), v)
  ELSE returning(addKey(s, tgt.o, key.k, v), v)

\* set(target, key, val)
set(s, tgt, key, v) == setOn(warnPrimitive(s, tgt), tgt, key, v)

----------------------------------------------------------------------------
(* The root instance *)

\* initData: vm._data = {a, b, xs: []}, the object that the data option
\* holds, then observe(data, true)
initData(s, a0, b0) ==
  observeRoot([s EXCEPT !.val["a"] = a0, !.val["b"] = b0,
                        !.val["xs"] = Ref("list"),
                        !.heap["data"].keys = <<"a", "b", "xs">>],
              Ref("data"))

\* watchers[key] = the watcher just made; defineComputed(vm, key, userDef)
defineComputed(s, vm) == [s EXCEPT !.vms[vm].sum = Len(s.ws)]

\* initComputed: one lazy watcher for the computed property  sum: a + b
initComputed(s, vm) ==
  defineComputed(newWatcher(s, vm, "a+b", "noop",
                            Options(FALSE, TRUE, FALSE, FALSE), FALSE), vm)

\* the options of $watch
WatchOptions(deep, sync, immediate) ==
  [deep |-> deep, sync |-> sync, immediate |-> immediate]

NoOptions == WatchOptions(FALSE, FALSE, FALSE)

\* the disposer that $watch returns
UnwatchFn(w) == [t |-> "function", w |-> w]

\* $watch after  new Watcher : if (options.immediate) cb.call(vm,
\* watcher.value), then  return function unwatchFn
immediateCb(s1, watcher, options) ==
  IF Thrown(s1) THEN s1
  ELSE returning(IF options.immediate
                 THEN catchCb(Callback(s1, watcher, s1.ws[watcher].value,
                                       Undef), watcher)
                 ELSE s1, UnwatchFn(watcher))

\* new Watcher(vm, expOrFn, cb, options) of $watch, with options.user = true
userWatcher(s, vm, expOrFn, cb, options) ==
  newWatcher(s, vm, expOrFn, cb,
             [Options(TRUE, FALSE, options.sync, FALSE)
                EXCEPT !.deep = options.deep], FALSE)

\* Vue.prototype.$watch
Vue_watch(s, vm, expOrFn, cb, options) ==
  immediateCb(userWatcher(s, vm, expOrFn, cb, options), Len(s.ws) + 1,
              options)

\* initLifecycle: parent.$children.push(vm), vm.$parent = parent
initLifecycle(s, vm, parent) ==
  IF parent # NoParent
  THEN [s EXCEPT !.vms[vm].inited = TRUE, !.vms[vm].parent = parent,
                 !.vms[parent].children = Append(@, vm)]
  ELSE [s EXCEPT !.vms[vm].inited = TRUE]

\* a step of _init begins, recorded for the properties
initStep(s, vm, step) == log(s, "init", 0, step, VmVal(vm), Undef)

\* initInjections(vm), initProvide(vm): the components inject and provide
\* nothing
initInjections(s1, vm) == initStep(s1, vm, "injections")

initProvide(s1, vm) == initStep(s1, vm, "provide")

\* initProps of the child: defineReactive(props, 'n', value)
initProps(s, value) == [s EXCEPT !.val["n"] = value]

\* initMethods: vm[key] = bind(methods[key], vm)
initMethods(s1, vm) == initStep(s1, vm, "methods")

\* initWatch: createWatcher(vm, key, handler), that is vm.$watch(key,
\* handler, options).  The watch option of P is  {a: rec} , that of C is
\* {n: {handler: readN, immediate: true}}
initWatch(s1, vm) ==
  IF HasProps(vm)
  THEN Vue_watch(initStep(s1, vm, "watch"), vm, "n", "readN",
                 WatchOptions(FALSE, FALSE, TRUE))
  ELSE Vue_watch(initStep(s1, vm, "watch"), vm, "a", "rec", NoOptions)

\* data.call(vm, vm): the data function of a component reads and throws by
\* the options of the component, or returns an empty object
dataCall(s2, vm) ==
  IF s2.vms[vm].throws
  THEN handleError(raise(userRead(s2, vm), "data"), "data()")
  ELSE [userRead(s2, vm) EXCEPT !.ret = Undef]

\* getData(data, vm): pushTarget(), the data function in a try whose catch
\* reports the error and whose finally calls popTarget(); the data is an
\* empty object, which nothing reads
getData(s1, vm) == popTarget(dataCall(pushTarget(s1, NoTarget), vm))

\* initState, its steps one after the other; d holds the data or the
\* propsData of the options.  Without a data option initState observes an
\* empty object, which nothing reads
stateProps(s1, vm, d) ==
  IF HasProps(vm) THEN initProps(initStep(s1, vm, "props"), d.n) ELSE s1

stateMethods(s1, vm) == IF HasMethods(vm) THEN initMethods(s1, vm) ELSE s1

stateData(s1, vm, d) ==
  IF HasData(vm) THEN initData(initStep(s1, vm, "data"), d.a, d.b)
  ELSE IF s1.vms[vm].throws \/ s1.vms[vm].reads
  THEN getData(initStep(s1, vm, "data"), vm)
  ELSE initStep(s1, vm, "data")

stateComputed(s1, vm) ==
  IF HasComputed(vm) THEN initComputed(initStep(s1, vm, "computed"), vm)
  ELSE s1

\* initComputed of an instance with the throws option: also  bad: boom
initBad(s1, vm) ==
  IF HasComputed(vm) /\ s1.vms[vm].throws
  THEN [newWatcher(s1, vm, "boom", "noop",
                   Options(FALSE, TRUE, FALSE, FALSE), FALSE)
          EXCEPT !.vms[vm].bad = Len(s1.ws) + 1]
  ELSE s1

stateWatch(s1, vm) == IF s1.vms[vm].watch THEN initWatch(s1, vm) ELSE s1

\* initState with the data option first
initState_dataFirst(s, vm, d) ==
  stateWatch(
    initBad(
      stateComputed(
        stateMethods(stateProps(stateData(s, vm, d), vm, d), vm), vm), vm),
    vm)

\* initState
initState(s, vm, d) ==
  stateWatch(
    initBad(
      stateComputed(
        stateData(stateMethods(stateProps(s, vm, d), vm), vm, d), vm), vm),
    vm)

\* _init, its end: if (vm.$options.el) vm.$mount(vm.$options.el)
mountEl(s1, vm) ==
  IF s1.vms[vm].el THEN mountComponent(initStep(s1, vm, "$mount"), vm)
  ELSE s1

\* _init that mounts on the el option before initState
_init_mountFirst(s, vm, parent, d) ==
  callHook(
    initProvide(
      initState(
        mountEl(
          initInjections(
            callHook(initLifecycle(s, vm, parent), vm, "beforeCreate"), vm),
          vm), vm, d), vm),
    vm, "created")

\* Vue.prototype._init
_init(s, vm, parent, d) ==
  mountEl(
    callHook(
      initProvide(
        initState(
          initInjections(
            callHook(initLifecycle(s, vm, parent), vm, "beforeCreate"), vm),
          vm, d), vm),
      vm, "created"), vm)

\* Vue.prototype._init of  new Vue({data: {a, b}, computed: {sum}, ...})
Vue_init(s, a0, b0) == _init(s, "P", NoParent, [a |-> a0, b |-> b0])

\* Vue.prototype._init for a child component, made for a placeholder vnode
Vue_init_child(s, c, parent, propsData) ==
  _init(s, c, parent, [n |-> propsData])

\* an instance not yet made.  throws: the user functions of the component
\* throw an Error; bad: the watcher of its computed property bad;
\* el: vm.$el, the el option before the mount;
\* watch: the watch option; child: the component that the template holds;
\* pendingInsert: data.pendingInsert of the placeholder vnode;
\* reads: its hooks and its data function read this.n; again: its
\* beforeDestroy hook calls this.$destroy(), once (done); vif: its template
\* holds the child only while b is not 1
NoVm == [inited |-> FALSE, _isMounted |-> FALSE, _isDestroyed |-> FALSE,
         _isBeingDestroyed |-> FALSE, _watcher |-> 0, _watchers |-> <<>>,
         sum |-> 0, _vnode |-> Undef, parent |-> NoParent,
         children |-> <<>>, pendingInsert |-> <<>>, el |-> FALSE,
         watch |-> FALSE, child |-> NoParent, throws |-> FALSE, bad |-> 0,
         reads |-> FALSE, again |-> FALSE, done |-> FALSE, vif |-> FALSE]

\* the containers as the application made them, not yet observed
NoOb0(o) ==
  [isArray |-> o = "list", extensible |-> o # "frozen", isVNode |-> o = "vn",
   ob |-> FALSE, vmCount |-> 0, items |-> <<>>, keys |-> <<>>, reactive |-> {}]

Blank ==
  [val |-> [k \in Keys |-> Undef], subs |-> [d \in Deps |-> <<>>],
   target |-> NoTarget, targetStack |-> <<>>, ws |-> <<>>,
   vms |-> [v \in VmIds |-> IF v = "P" THEN [NoVm EXCEPT !.child = "C"]
                             ELSE NoVm],
   queue |-> <<>>, has |-> {}, waiting |-> FALSE, flushing |-> FALSE,
   index |-> 0, circular |-> [w \in {} |-> 0],
   heap |-> [o \in Objs |-> NoOb0(o)], childOb |-> [k \in Keys |-> NoOb],
   iq |-> <<>>, ret |-> Undef, trace |-> <<>>]

\* the machine state as a record, and back
Cur ==
  [val |-> val, subs |-> subs, target |-> target, targetStack |-> targetStack,
   ws |-> ws, vms |-> vms, queue |-> queue, has |-> has, waiting |-> waiting,
   flushing |-> flushing, index |-> index, circular |-> circular,
   heap |-> heap, childOb |-> childOb, iq |-> <<>>, ret |-> Undef,
   trace |-> <<>>]

Commit(s) ==
  /\ val' = s.val /\ subs' = s.subs /\ target' = s.target
  /\ targetStack' = s.targetStack /\ ws' = s.ws /\ vms' = s.vms
  /\ queue' = s.queue /\ has' = s.has /\ waiting' = s.waiting
  /\ flushing' = s.flushing /\ index' = s.index /\ circular' = s.circular
  /\ heap' = s.heap /\ childOb' = s.childOb
  /\ ret' = s.ret /\ trace' = s.trace
  /\ dom' = dom

Op(name, k, x) == [name |-> name, k |-> k, x |-> x]

----------------------------------------------------------------------------
(* The top-level calls *)

----------------------------------------------------------------------------
(* Observation: what the calls so far did, kept for the properties.  None  *)
(* of it is read by the operators above                                    *)

Many == 2   \* counters count 0, 1, many

\* hist.lastW[k]  the value of the last assignment to key k
\* hist.base[w]   for a watcher w queued by application code: the value its
\*                key had before the write that queued it
\* hist.several   the queued watchers notified again by a later write
\*                (base and several are kept until the first write that
\*                queues a watcher after the flush: stale)
\* hist.accessed, hist.evals    accesses of vm.sum and runs of its getter
\*                since the last flush
\* hist.caccessed, hist.cevals  the same since the computed watcher was last
\*                told of a change (update())
\* hist.fired[vm][h]  how often the hook h (beforeDestroy, destroyed) of the
\*                instance vm ran
Hist0(a0, b0) ==
  [lastW |-> [k \in Keys |-> IF k = "a" THEN a0 ELSE IF k = "b" THEN b0
                             ELSE IF k = "xs" THEN Ref("list") ELSE Undef],
   base |-> [w \in {} |-> Undef], several |-> {},
   accessed |-> FALSE, evals |-> 0, caccessed |-> FALSE, cevals |-> 0,
   pre |-> Undef, stale |-> FALSE,
   fired |-> [vm \in VmIds |-> [beforeDestroy |-> 0, destroyed |-> 0]]]

Inc(n) == IF n < Many THEN n + 1 ELSE Many

ObserveEvent(h, ev, lazyIds, inFlush) ==
  CASE ev.e = "set" -> [h EXCEPT !.lastW[ev.k] = ev.x, !.pre = ev.y]
    [] ev.e = "queue" /\ ~inFlush ->
         IF h.stale
         THEN [h EXCEPT !.base = (ev.w :> h.pre), !.several = {},
                        !.stale = FALSE]
         ELSE [h EXCEPT !.base = (ev.w :> h.pre) @@ h.base]
    [] ev.e = "update" /\ ev.w \in DOMAIN h.base /\ ~h.stale /\ ~inFlush ->
         [h EXCEPT !.several = @ \cup {ev.w}]
    [] ev.e = "update" /\ ev.w \in lazyIds ->
         [h EXCEPT !.caccessed = FALSE, !.cevals = 0]
    [] ev.e = "computed" -> [h EXCEPT !.accessed = TRUE, !.caccessed = TRUE]
    [] ev.e = "get" /\ ev.w \in lazyIds ->
         [h EXCEPT !.evals = Inc(@), !.cevals = Inc(@)]
    [] ev.e = "hook" /\ ev.k \in {"beforeDestroy", "destroyed"} ->
         [h EXCEPT !.fired[ev.x.id][ev.k] = Inc(@)]
    [] OTHER -> h

RECURSIVE ObserveLoop(_, _, _, _, _)
ObserveLoop(h, evs, i, lazyIds, inFlush) ==
  IF i > Len(evs) THEN h
  ELSE ObserveLoop(ObserveEvent(h, evs[i], lazyIds, inFlush), evs, i + 1,
                   lazyIds, inFlush)

\* the observation after a call that started with trace t0 and led to s
Observe(h, t0, s, inFlush) ==
  LET lazyIds == {w \in DOMAIN s.ws : s.ws[w].lazy}
      h1 == ObserveLoop(h, s.trace, Len(t0) + 1, lazyIds, inFlush)
      h2 == [h1 EXCEPT !.pre = Undef]
  IN IF inFlush /\ ~s.flushing
     THEN [h2 EXCEPT !.stale = TRUE, !.accessed = FALSE, !.evals = 0]
     ELSE h2

\* a top-level call that leads from the current state to s
Do(s, name, k, x) ==
  /\ Commit(s)
  /\ op' = Op(name, k, x)
  /\ hist' = Observe(hist, IF name = "flush" /\ flushing THEN trace ELSE <<>>,
                     s, name = "flush")

\* no document: the component-level operators above stand for the renderer
NoDom ==
  [nodes |-> <<>>, vn |-> <<>>, log |-> <<>>, ret |-> Undef, root |-> 0,
   old |-> 0, loops |-> <<>>]

\* the variables but dom hold the state s
Hold(s, a0, b0) ==
  /\ val = s.val /\ subs = s.subs /\ target = s.target
  /\ targetStack = s.targetStack /\ ws = s.ws /\ vms = s.vms
  /\ queue = s.queue /\ has = s.has /\ waiting = s.waiting
  /\ flushing = s.flushing /\ index = s.index /\ circular = s.circular
  /\ heap = s.heap /\ childOb = s.childOb
  /\ ret = s.ret /\ trace = s.trace
  /\ op = Op("init", "", Undef)
  /\ hist = Hist0(a0, b0)

\* the variables hold the state s
Start(s, a0, b0) == Hold(s, a0, b0) /\ dom = NoDom

Init == \E a0 \in Nums, b0 \in Nums : Start(Vue_init(Blank, a0, b0), a0, b0)

\* vm.k = v
Write(k, v) ==
  /\ ~flushing
  /\ Do(reactiveSetter(Cur, k, v), "write", k, v)

\* vm.k
Read(k) ==
  /\ ~flushing
  /\ Do(reactiveGetter(Cur, k), "read", k, Undef)

\* vm.sum
ReadComputed ==
  /\ ~flushing
  /\ Do(computedGetter(Cur, "P"), "readComputed", "sum", Undef)

\* vm.$watch(expOrFn, cb)
Watch(expOrFn, cb) ==
  /\ ~flushing
  /\ Len(ws) < MaxWatchers
  /\ Do(Vue_watch(Cur, "P", expOrFn, cb, NoOptions), "watch", expOrFn, Undef)

\* vm.$watch('a', cb) with a callback that assigns to a; at most one
WatchOwn ==
  /\ \A w \in DOMAIN ws : ws[w].cb # "toggleA"
  /\ Watch("a", "toggleA")

\* vm.$watch(expOrFn, cb), once per expOrFn
WatchOnce(expOrFn, cb) ==
  /\ \A w \in DOMAIN ws : ws[w].getter # expOrFn
  /\ Watch(expOrFn, cb)

\* vm.$watch(expOrFn, cb, options), once per expOrFn and options
WatchWith(expOrFn, cb, options) ==
  /\ ~flushing
  /\ Len(ws) < MaxWatchers
  /\ \A w \in DOMAIN ws :
       ~(ws[w].user /\ ws[w].getter = expOrFn /\ ws[w].deep = options.deep
           /\ ws[w].sync = options.sync)
  /\ Do(Vue_watch(Cur, "P", expOrFn, cb, options), "watch", expOrFn, options)

\* unwatchFn(), the disposer that $watch returned for watcher w
Unwatch(w) ==
  /\ ~flushing
  /\ ws[w].user
  /\ Do(teardown(Cur, w), "unwatch", "", UnwatchFn(w))

\* vm.$mount()
Mount ==
  /\ ~flushing
  /\ vms["P"]._watcher = 0
  /\ Len(ws) + 2 <= MaxWatchers
  /\ Do(mountComponent(Cur, "P"), "mount", "", Undef)

\* the values that application code puts into the array
Elems == {Num(0), Ref("obj"), Ref("frozen")}

\* the lists of lo to hi such values
Lists(lo, hi) == UNION {[1..n -> Elems] : n \in lo..hi}

\* the arguments of the calls of application code
ArgsOf(method) ==
  CASE method = "push" -> Lists(1, 2)
    [] method = "unshift" -> Lists(1, 1)
    [] method = "splice" ->
         {<<Num(start), Num(deleteCount)>> \o ins :
            start \in 0..MaxLen, deleteCount \in 0..1, ins \in Lists(0, 1)}
    [] OTHER -> {<<>>}

\* vm.xs.method(...args)
Mutate(method, args) ==
  LET s0 == reactiveGetter(Cur, "xs")
      o == s0.ret.o
  IN /\ ~flushing
     /\ Len(original(s0, o, method, args).items) <= MaxLen
     /\ Do(mutator(s0, o, method, args), "mutate", method,
           [args |-> args, before |-> heap[o].items])

\* Vue.set(target, key, val); an index stays below MaxLen
Set(tgt, key, v) ==
  /\ ~flushing
  /\ isValidArrayIndex(key) => key.n < MaxLen
  /\ Do(set(Cur, tgt, key, v), "set", "",
        [target |-> tgt, key |-> key, val |-> v])

\* obj.p = v
WriteP(v) ==
  /\ ~flushing
  /\ Do(propSet(Cur, "obj", "p", v), "writeP", "p", v)

\* obj.p
ReadP ==
  /\ ~flushing
  /\ Do(propGet(Cur, "obj", "p"), "readP", "p", Undef)

\* the microtask scheduled by queueWatcher, one pass of its loop at a time;
\* nothing else runs until the flush is over
Flush ==
  /\ waiting
  /\ Do(flushSchedulerQueue([Cur EXCEPT !.trace =
                               IF flushing THEN trace ELSE <<>>]),
        "flush", "", Undef)

\* application code that watches the keys a and b and writes them
Next ==
  \/ \E k \in {"a", "b"}, v \in Written : Write(k, v)
  \/ \E k \in {"a", "b"} : Read(k)
  \/ Watch("a", "rec")
  \/ Watch("b", "toggleA")
  \/ Flush

Spec == Init /\ [][Next]_vars

\* application code that reads and watches the computed property
NextComputed ==
  \/ \E k \in {"a", "b"}, v \in Written : Write(k, v)
  \/ ReadComputed
  \/ Watch("sum", "rec")
  \/ Flush

SpecComputed == Init /\ [][NextComputed]_vars

\* a mounted parent and its child component
NextComp ==
  \/ \E k \in {"a", "b"}, v \in Written : Write(k, v)
  \/ Mount
  \/ Watch("sum", "rec")
  \/ Flush

SpecComp == Init /\ [][NextComp]_vars

\* a watcher whose callback assigns to the key it watches
NextLoop ==
  \/ \E k \in {"a", "b"}, v \in Written : Write(k, v)
  \/ WatchOwn
  \/ Watch("b", "rec")
  \/ Flush

SpecLoop == Init /\ [][NextLoop]_vars

\* application code that mutates and watches the array
NextArray ==
  \/ \E method \in methodsToPatch : \E args \in ArgsOf(method) :
       Mutate(method, args)
  \/ Watch("xs", "rec")
  \/ Flush

\* the numbers of data play no part here
InitArray == Init /\ val["a"] = Num(0) /\ val["b"] = Num(0)

SpecArray == InitArray /\ [][NextArray]_vars

\* application code that adds a key to an object of the array and replaces
\* elements of the array with Vue.set
NextSet ==
  \/ \E v \in Nums : Set(Ref("obj"), Key("p"), v)
  \/ \E i \in 0..(MaxLen - 1), v \in {Num(0), Ref("obj")} :
       Set(Ref("list"), Num(i), v)
  \/ \E tgt \in {Undef, Num(0)} : Set(tgt, Key("p"), Num(0))
  \/ Set(Ref("data"), Key("p"), Num(0))
  \/ Mutate("push", <<Ref("obj")>>)
  \/ \E v \in Nums : WriteP(v)
  \/ ReadP
  \/ WatchOnce("xs", "rec")
  \/ WatchOnce("p", "rec")
  \/ Flush

SpecSet == InitArray /\ [][NextSet]_vars

\* the values that application code assigns and pushes: a number, a plain
\* object, a frozen one, a VNode, the array of data
Assigned == {Num(0), Ref("obj"), Ref("frozen"), Ref("vn"), Ref("list")}

\* application code that assigns containers to the keys of data and pushes
\* them onto the array
NextObserve ==
  \/ \E v \in Assigned : Write("a", v)
  \/ \E v \in {Num(0), Ref("obj")} : Write("b", v)
  \/ \E v \in Assigned \ {Num(0), Ref("list")} : Mutate("push", <<v>>)
  \/ WatchOnce("a", "rec")
  \/ Flush

SpecObserve == InitArray /\ [][NextObserve]_vars

\* application code that watches a number, deeply or not, and the array
NextRun ==
  \/ \E v \in Written : Write("a", v)
  \/ Mutate("push", <<Num(0)>>)
  \/ Mutate("pop", <<>>)
  \/ WatchWith("a", "rec", NoOptions)
  \/ WatchWith("a", "rec", WatchOptions(TRUE, FALSE, FALSE))
  \/ WatchWith("xs", "rec", NoOptions)
  \/ Flush

SpecRun == InitArray /\ [][NextRun]_vars

\* application code that watches a key with and without the sync option
NextSync ==
  \/ \E v \in Written : Write("a", v)
  \/ WatchWith("a", "rec", NoOptions)
  \/ WatchWith("a", "rec", WatchOptions(FALSE, TRUE, FALSE))
  \/ WatchWith("sum", "rec", WatchOptions(FALSE, TRUE, FALSE))
  \/ Flush

SpecSync == Init /\ [][NextSync]_vars

\* application code that watches keys, with and without the immediate
\* option, and calls the disposers
NextWatch ==
  \/ \E v \in Written : Write("a", v)
  \/ \E v \in {Num(0), Num(1)} : Write("b", v)
  \/ \E immediate \in BOOLEAN :
       WatchWith("a", "rec", WatchOptions(FALSE, FALSE, immediate))
  \/ WatchWith("b", "rec", WatchOptions(FALSE, FALSE, TRUE))
  \/ \E w \in DOMAIN ws : Unwatch(w)
  \/ Flush

SpecWatch == InitArray /\ [][NextWatch]_vars

\* application code that watches a function which reads b only while a is
\* 0, watches the computed property, and calls the disposers
NextDeps ==
  \/ \E v \in Nums : Write("a", v)
  \/ \E v \in {Num(0), Num(1)} : Write("b", v)
  \/ WatchWith("cond", "rec", NoOptions)
  \/ WatchWith("sum", "rec", NoOptions)
  \/ \E w \in DOMAIN ws : Unwatch(w)
  \/ Flush

SpecDeps == InitArray /\ [][NextDeps]_vars

\* vm.$mount(el) of the root, with an element or with none
MountOn(el) ==
  /\ ~flushing
  /\ vms["P"]._watcher = 0
  /\ Do(mountComponent([Cur EXCEPT !.vms["P"].el = el], "P"), "mount", "",
        [el |-> el])

\* vm.$destroy()
Destroy(vm) ==
  /\ ~flushing
  /\ vms[vm].inited
  /\ Do(Vue_destroy(Cur, vm), "destroy", vm, Undef)

\* the options of the root and the template of C, as the application chose
BlankWith(el, watch, grand) ==
  [Blank EXCEPT !.vms["P"].el = el, !.vms["P"].watch = watch,
                !.vms["C"].child = IF grand THEN "G" ELSE NoParent]

\* a tree of components: made, mounted, updated and destroyed
InitTree ==
  \E el \in BOOLEAN, watch \in BOOLEAN, grand \in BOOLEAN :
    Start(Vue_init(BlankWith(el, watch, grand), Num(0), Num(0)),
          Num(0), Num(0))

NextTree ==
  \/ \E v \in Nums : Write("a", v)
  \/ \E el \in BOOLEAN : MountOn(el)
  \/ \E vm \in VmIds : Destroy(vm)
  \/ Flush

SpecTree == InitTree /\ [][NextTree]_vars

\* vm.bad
ReadBad ==
  /\ ~flushing
  /\ Do(computedGetterBad(Cur, "P"), "readBad", "bad", Undef)

\* components whose hooks, data function, render function, watcher getters
\* and watcher callbacks throw
InitThrow ==
  \E el \in BOOLEAN, b0 \in {Num(0), Num(1)} :
    Start(Vue_init([BlankWith(el, FALSE, FALSE) EXCEPT
                      !.vms["P"].throws = TRUE, !.vms["C"].throws = TRUE],
                   Num(0), b0), Num(0), b0)

NextThrow ==
  \/ \E v \in {Num(0), Num(1)} : Write("b", v)
  \/ ReadBad
  \/ \E immediate \in BOOLEAN :
       WatchWith("boom", "boomCb", WatchOptions(FALSE, FALSE, immediate))
  \/ WatchOnce("bad", "rec")
  \/ \E el \in BOOLEAN : MountOn(el)
  \/ Flush

SpecThrow == InitThrow /\ [][NextThrow]_vars

\* components with user code in their hooks, data functions and immediate
\* watch handlers: the hooks and the data function of C read this.n; with
\* watch P has  watch: {a: rec}  and C  watch: {n: {handler: readN,
\* immediate: true}} ; with again the beforeDestroy hooks of P and C call
\* this.$destroy(); with vif the template of P holds C while b is not 1;
\* with grand the template of C holds G
BlankHooks(el, watch, again, vif, grand) ==
  [BlankWith(el, watch, grand) EXCEPT
     !.vms["C"].reads = TRUE, !.vms["C"].watch = watch,
     !.vms["P"].again = again, !.vms["C"].again = again,
     !.vms["P"].vif = vif]

\* the options that the application chose: one of them, or none
InitHooks ==
  \E el \in BOOLEAN, option \in {"none", "watch", "again", "vif", "grand"} :
    Start(Vue_init(BlankHooks(el, option = "watch", option = "again",
                              option = "vif", option = "grand"),
                   Num(0), Num(0)),
          Num(0), Num(0))

\* the application hides the child (b = 1), writes the prop of the child
\* ( vm.$children[0].n = 1 ), mounts, destroys and flushes
NextHooks ==
  \/ Write("b", Num(1))
  \/ /\ vms["C"].inited
     /\ Write("n", Num(1))
  \/ \E el \in BOOLEAN : MountOn(el)
  \/ \E vm \in VmIds : Destroy(vm)
  \/ Flush

SpecHooks == InitHooks /\ [][NextHooks]_vars

----------------------------------------------------------------------------
(* Properties *)

NoEvent(t, e) == \A i \in DOMAIN t : t[i].e # e
HasEvent(e, w) == \E i \in DOMAIN trace : trace[i].e = e /\ trace[i].w = w
Notified(k) == \E i \in DOMAIN trace : trace[i].e = "notify" /\ trace[i].k = k

\* newVal === value, or both are NaN
SameValue(x, y) == StrictEq(x, y) \/ (x = NaN /\ y = NaN)

C2_SameValueWriteIsSilent ==
  [][/\ (op'.name = "write" /\ SameValue(op'.x, val[op'.k]))
          => /\ val' = val /\ ws' = ws /\ queue' = queue /\ subs' = subs
             /\ NoEvent(trace', "notify") /\ NoEvent(trace', "update")
     /\ (op'.name = "write" /\ op.name = "write" /\ op'.k = op.k
           /\ op'.x = op.x)
          => NoEvent(trace', "update")]_vars

\* NaN written over NaN on a key that has subscribers, and nobody notified
C2_Witness ==
  /\ op.name = "write" /\ op.x = NaN /\ subs[op.k] # <<>>
  /\ \E i \in DOMAIN trace :
       trace[i].e = "set" /\ trace[i].x = NaN /\ trace[i].y = NaN
  /\ NoEvent(trace, "notify")

\* the watcher the next pass of the flush runs
NextToRun ==
  IF flushing THEN queue[index] ELSE sortById(queue)[1]

\* the events the step adds to the trace
Added ==
  IF op'.name = "flush" /\ flushing
  THEN SubSeq(trace', Len(trace) + 1, Len(trace'))
  ELSE trace'

CbCalls(t, w) == SelectSeq(t, LAMBDA ev : ev.e = "cb" /\ ev.w = w)

NoDup(q) == \A i, j \in DOMAIN q : q[i] = q[j] => i = j

\* the pass of the flush that runs a watcher of a key, queued by application
\* code and notified again by a later write, when nothing has assigned to
\* the key since the flush began
C3_Case(w) ==
  /\ op'.name = "flush" /\ waiting /\ w = NextToRun
  /\ w \in DOMAIN hist.base /\ w \in hist.several /\ ~hist.stale
  /\ ws[w].getter \in Keys /\ ws[w].user /\ ~ws[w].sync /\ ~ws[w].lazy
  /\ flushing => \A i \in DOMAIN trace :
                   ~(trace[i].e = "set" /\ trace[i].k = ws[w].getter)

Runs == SelectSeq(trace, LAMBDA ev : ev.e = "run")

\* the position of the first watcher queued during the flush, if any
FirstQueued ==
  IF NoEvent(trace, "queue") THEN Len(trace) + 1
  ELSE CHOOSE i \in DOMAIN trace :
         /\ trace[i].e = "queue"
         /\ \A j \in 1..(i - 1) : trace[j].e # "queue"

Hook(vm, h) == Ev("hook", 0, h, VmVal(vm), Undef)

Hooks == SelectSeq(trace, LAMBDA ev : ev.e = "hook")

\* the flush assigned a different value to the child's prop
PropAltered ==
  \E i \in DOMAIN trace :
    /\ trace[i].e = "set" /\ trace[i].k = "n"
    /\ ~SameValue(trace[i].x, trace[i].y)

\* C5: a flush in which the parent's render alters the prop of the mounted
\* child fires parent.beforeUpdate, child.beforeUpdate, child.updated,
\* parent.updated, in this order and once each
C5_ParentBeforeChild ==
  (op.name = "flush" /\ ~flushing /\ PropAltered) =>
    Hooks = <<Hook("P", "beforeUpdate"), Hook("C", "beforeUpdate"),
              Hook("C", "updated"), Hook("P", "updated")>>

C5_Witness ==
  /\ op.name = "flush" /\ ~flushing /\ PropAltered
  /\ Len(Hooks) = 4

\* the watchers whose callback assigns to the key they watch
OwnWriters == {w \in DOMAIN ws : ws[w].cb = "toggleA" /\ ws[w].getter = "a"}

\* the number of events e of watcher w in the trace
NumEvents(e, w) ==
  Cardinality({i \in DOMAIN trace : trace[i].e = e /\ trace[i].w = w})

Warnings == {i \in DOMAIN trace : trace[i].e = "warn"}

\* C6: no watcher is run more than 101 times in a flush, and a flush in
\* which the callback of a watcher that assigns to its own key was called
\* ends after 101 runs of that watcher with exactly one warning
C6_LoopGuard ==
  /\ \A w \in DOMAIN circular : circular[w] <= MAX_UPDATE_COUNT
  /\ \A w \in OwnWriters :
       (op.name = "flush" /\ ~flushing /\ HasEvent("cb", w)) =>
         /\ NumEvents("run", w) = MAX_UPDATE_COUNT + 1
         /\ Cardinality(Warnings) = 1
         /\ \A i \in Warnings :
              trace[i] = Ev("warn", w, "infinite update loop", Undef, Undef)

C6_Witness ==
  /\ op.name = "flush" /\ ~flushing
  /\ \E w \in OwnWriters :
       HasEvent("cb", w) /\ NumEvents("run", w) = MAX_UPDATE_COUNT + 1
  /\ Cardinality(Warnings) = 1

\* C7 as claimed: if the computed property was accessed since the last
\* flush, its getter ran exactly once since the last flush
C7_Original ==
  hist.accessed => hist.evals = 1

\* C7, amended: if the computed property was accessed since its watcher was
\* last told of a change in a dependency, its getter ran exactly once since
\* then; flushes play no part
C7_Caching ==
  /\ hist.cevals <= 1
  /\ hist.caccessed => hist.cevals = 1

\* a read of the computed property that was served from the cache
C7_Witness ==
  /\ op.name = "readComputed" /\ NoEvent(trace, "get")
  /\ hist.caccessed /\ hist.cevals = 1

Computed == vms["P"].sum

\* C8: a computed watcher is created dirty, with no value and without
\* running its getter; a write that changes a dependency only marks it
\* dirty (its getter does not run, it is not queued); the next read
\* evaluates it on the spot and returns the value of the current state
C8_LazyRecomputation ==
  /\ \A w \in DOMAIN ws :
       (ws[w].lazy /\ HasEvent("new", w)) =>
         ws[w].dirty /\ ws[w].value = Undef /\ ~HasEvent("get", w)
  /\ op.name = "write" =>
       /\ ~HasEvent("get", Computed) /\ ~HasEvent("queue", Computed)
       /\ Computed \notin Range(queue)
       /\ \A k \in Range(ws[Computed].deps) :
            Notified(k) => ws[Computed].dirty
  /\ op.name = "readComputed" =>
       /\ ret = Plus(val["a"], val["b"])
       /\ ~ws[Computed].dirty

\* a read that evaluated the getter for the second time since the last
\* flush: the read after a write
C8_Witness ==
  /\ op.name = "readComputed" /\ HasEvent("get", Computed)
  /\ hist.evals = Many
  /\ ret = Plus(val["a"], val["b"])

\* the watchers that read the computed property when they evaluate
Readers ==
  {w \in DOMAIN ws :
     /\ ws[w].active /\ ~ws[w].lazy
     /\ \/ ws[w].getter = "sum"
        \/ ws[w].getter = "updateComponent" /\ ws[w].vm = "P"}

\* C9: a watcher that reads the computed property when it evaluates is
\* subscribed to every Dep of the computed watcher, and a write that changes
\* one of them calls its update()
C9_DependencyForwarding ==
  /\ \A w \in Readers : \A d \in Range(ws[Computed].deps) :
       w \in Range(subs[d]) /\ d \in ws[w].depIds
  /\ op.name = "write" =>
       \A k \in Range(ws[Computed].deps) :
         Notified(k) => \A w \in Readers : HasEvent("update", w)

\* a watcher created on the computed property while its value was cached,
\* subscribed to both inputs
C9_Witness ==
  /\ op.name = "watch" /\ op.k = "sum" /\ ~HasEvent("get", Computed)
  /\ Len(ws) \in Readers
  /\ Len(ws) \in Range(subs["a"]) /\ Len(ws) \in Range(subs["b"])

\* the elements that the last call of a mutation method inserted
Inserted ==
  CASE op.k \in {"push", "unshift"} -> op.x.args
    [] op.k = "splice" -> SubSeq(op.x.args, 3, Len(op.x.args))
    [] OTHER -> <<>>

\* the positions in the trace of the notifications of the Dep of Observer o
NotifiedAt(o) == {i \in DOMAIN trace : trace[i].e = "notify" /\ trace[i].k = o}

\* container o had an Observer when the event at position i took place
ObservedBefore(o, i) ==
  /\ heap[o].ob
  /\ \A j \in DOMAIN trace :
       (trace[j].e = "Observer" /\ trace[j].k = o) => j < i

\* the array holds what the native method leaves of op.x.before, and the
\* call returned what the native method returns
NativeApplied ==
  LET was == op.x.before
      args == op.x.args
      now == heap["list"].items
      n == Len(was)
      occurs(q, v) == Cardinality({i \in DOMAIN q : q[i] = v})
  IN CASE op.k = "push" -> now = was \o args /\ ret = Num(Len(now))
       [] op.k = "unshift" -> now = args \o was /\ ret = Num(Len(now))
       [] op.k = "pop" ->
            IF n = 0 THEN now = <<>> /\ ret = Undef
            ELSE was = Append(now, ret)
       [] op.k = "shift" ->
            IF n = 0 THEN now = <<>> /\ ret = Undef
            ELSE was = <<ret>> \o now
       [] op.k = "splice" ->
            LET start == IF args[1].n < n THEN args[1].n ELSE n
                gone == ret.items
            IN /\ Len(gone) <= args[2].n
               /\ Len(gone) = args[2].n \/ start + Len(gone) = n
               /\ was = SubSeq(now, 1, start) \o gone
                           \o SubSeq(now, start + Len(Inserted) + 1, Len(now))
               /\ SubSeq(now, start + 1, start + Len(Inserted)) = Inserted
       [] op.k = "reverse" ->
            /\ Len(now) = n /\ ret = Ref("list")
            /\ \A i \in 1..n : now[i] = was[n + 1 - i]
       [] op.k = "sort" ->
            /\ Len(now) = n /\ ret = Ref("list")
            /\ \A v \in Range(was) \cup Range(now) :
                 occurs(now, v) = occurs(was, v)
            /\ \A i \in 1..n : \A j \in (i + 1)..n :
                 ~SortCompare(Cur, now[j], now[i])

\* the native method was applied, then the Dep of the array's Observer was
\* notified, once
NotifiedOnce ==
  /\ NativeApplied
  /\ Cardinality(NotifiedAt("list")) = 1
  /\ \A i \in NotifiedAt("list") :
       /\ \E j \in 1..(i - 1) : trace[j].e = "original" /\ trace[j].k = op.k
       /\ \A w \in Range(subs["list"]) : NumEvents("update", w) = 1

\* C10 as claimed: every call of a mutation method applies the native method
\* and then notifies the Dep of the array's Observer exactly once, and every
\* container that push, unshift or splice inserted has an Observer before
\* that notification
C10_Original ==
  op.name = "mutate" =>
    /\ NotifiedOnce
    /\ \A i \in NotifiedAt("list") : \A e \in Range(Inserted) :
         isObject(e) => ObservedBefore(e.o, i)

\* C10, amended: every call of a mutation method applies the native method
\* and then notifies the Dep of the array's Observer exactly once; every
\* extensible container that push, unshift or splice inserted has an
\* Observer before that notification, and a frozen one is left without
C10_ArrayMutation ==
  op.name = "mutate" =>
    /\ NotifiedOnce
    /\ \A i \in NotifiedAt("list") : \A e \in Range(Inserted) :
         isObject(e) =>
           IF heap[e.o].extensible THEN ObservedBefore(e.o, i)
           ELSE ~heap[e.o].ob
    /\ \A o \in Objs : ~heap[o].extensible => ~heap[o].ob

\* a push of a plain object and a frozen one onto the watched array: the
\* first got its Observer in this call, the watcher was notified
C10_Witness ==
  /\ op.name = "mutate" /\ op.k = "push"
  /\ op.x.args = <<Ref("obj"), Ref("frozen")>>
  /\ HasEvent("Observer", 0) /\ heap["obj"].ob /\ ~heap["frozen"].ob
  /\ subs["list"] # <<>>
  /\ \A w \in Range(subs["list"]) : HasEvent("queue", w)

\* the number of notifications of Dep d, and of calls of update() of
\* watcher w, in the events t
Notifications(t, d) ==
  Cardinality({i \in DOMAIN t : t[i].e = "notify" /\ t[i].k = d})

Updates(t, w) ==
  Cardinality({i \in DOMAIN t : t[i].e = "update" /\ t[i].w = w})

\* the call about to be made is Vue.set of a key that obj does not have,
\* obj having an Observer
SetNewKey ==
  /\ op'.name = "set" /\ op'.x.target = Ref("obj")
  /\ heap["obj"].ob /\ op'.x.key.k \notin Range(heap["obj"].keys)

\* the call about to be made is Vue.set of an index of the array
SetIndex ==
  op'.name = "set" /\ op'.x.target = Ref("list")

\* C11: Vue.set of a new key on an observed object that is neither an
\* instance nor root data leaves the key with the value, reactive, and
\* notifies the Dep of the object's Observer exactly once, which calls
\* update() of every watcher subscribed to it; a later changing write to
\* the key notifies every watcher that read it; Vue.set of an index of an
\* array replaces the element through splice with exactly one notification
C11_SetAddsReactiveKey ==
  [][/\ SetNewKey =>
          /\ ret' = op'.x.val
          /\ (propGet(Cur, "obj", "p").ret)' = op'.x.val
          /\ "p" \in heap'["obj"].reactive
          /\ Notifications(trace', "obj") = 1
          /\ \A w \in Range(subs["obj"]) : Updates(trace', w) = 1
     /\ "p" \in heap["obj"].reactive => "p" \in heap'["obj"].reactive
     /\ (/\ op'.name = "writeP" /\ "p" \in heap["obj"].reactive
         /\ ~SameValue(op'.x, val["p"]))
          => /\ Notifications(trace', "p") = 1
             /\ \A w \in DOMAIN ws :
                  "p" \in ws[w].depIds => Updates(trace', w) = 1
     /\ SetIndex =>
          /\ ret' = op'.x.val
          /\ heap'["list"].items[op'.x.key.n + 1] = op'.x.val
          /\ Len(heap'["list"].items) =
               IF op'.x.key.n < Len(heap["list"].items)
               THEN Len(heap["list"].items) ELSE op'.x.key.n + 1
          /\ \E i \in DOMAIN trace' :
               trace'[i].e = "original" /\ trace'[i].k = "splice"
          /\ Notifications(trace', "list") = 1
          /\ \A w \in Range(subs["list"]) : Updates(trace', w) = 1]_vars

\* Vue.set has added the key p to obj, an element of the watched array: the
\* watcher of the array, which never read p, was queued
C11_Witness ==
  /\ op.name = "set" /\ op.x.target = Ref("obj")
  /\ "p" \in heap["obj"].reactive /\ val["p"] = op.x.val
  /\ Notifications(trace, "obj") = 1
  /\ \E w \in Range(subs["obj"]) :
       ws[w].getter = "xs" /\ HasEvent("queue", w) /\ "p" \notin ws[w].depIds

\* C12: Vue.set on a target that is undefined, null or primitive warns and
\* does nothing else: it returns normally and changes no state
C12_Original ==
  [][(op'.name = "set" /\ ~isObject(op'.x.target)) =>
       /\ ret'.t # "throw"
       /\ \E i \in DOMAIN trace' : trace'[i].e = "warn"
       /\ val' = val /\ heap' = heap /\ subs' = subs /\ ws' = ws
       /\ queue' = queue /\ childOb' = childOb]_vars

\* the creations of an Observer for container o in the events t
Wrapped(t, o) == {i \in DOMAIN t : t[i].e = "Observer" /\ t[i].k = o}

\* C13: a container that has an Observer keeps it and no call makes it
\* another one; no call makes more than one Observer for a container; the
\* frozen container and the VNode never get one; and the key that was
\* assigned a value holds the Observer of that value if it is an extensible
\* array or plain object, none otherwise
C13_ObserveOnce ==
  [][/\ \A o \in Objs :
          /\ heap[o].ob => heap'[o].ob /\ Wrapped(Added, o) = {}
          /\ Cardinality(Wrapped(Added, o)) <= 1
          /\ heap'[o].ob <=> (heap[o].ob \/ Wrapped(Added, o) # {})
     /\ ~heap'["frozen"].ob /\ ~heap'["vn"].ob
     /\ (op'.name = "write" /\ val'[op'.k] = op'.x) =>
          childOb'[op'.k] =
            IF op'.x \in {Ref("obj"), Ref("list")} THEN op'.x.o ELSE NoOb]_vars

\* the plain object, which has its Observer from an earlier call, was
\* assigned to a key while the other key holds it too: both keys hold the
\* one Observer and the call made none
C13_Witness ==
  /\ op.name = "write" /\ op.x = Ref("obj")
  /\ Wrapped(trace, "obj") = {} /\ heap["obj"].ob
  /\ childOb["a"] = "obj" /\ childOb["b"] = "obj"

\* the callback of watcher w is due when its getter returns v
Due(w, v) == ~StrictEq(v, ws[w].value) \/ isObject(v) \/ ws[w].deep

\* C14: the pass of the flush that runs an active watcher of a key
\* evaluates its getter, and calls the callback, once and with (the new
\* value, the previous value), exactly when the new value !== the previous
\* one, or is a container, or the watcher is deep; the new value is then
\* the stored one; otherwise the callback is not called and the stored value
\* stays
C14_RunCallsBack ==
  [][\A w \in DOMAIN ws :
       (/\ op'.name = "flush" /\ waiting /\ w = NextToRun
        /\ ws[w].active /\ ws[w].getter \in {"a", "xs"}) =>
         /\ \E i \in DOMAIN Added : Added[i] = Ev("get", w, "", Undef, Undef)
         /\ CbCalls(Added, w) =
              IF Due(w, val[ws[w].getter])
              THEN <<Ev("cb", w, "", val[ws[w].getter], ws[w].value)>>
              ELSE <<>>
         /\ ws'[w].value =
              IF Due(w, val[ws[w].getter]) THEN val[ws[w].getter]
              ELSE ws[w].value]_vars

\* a flush has called the callback of a watcher whose value changed and
\* that of a deep watcher whose value is the one it had
C14_Witness ==
  /\ op.name = "flush" /\ ~flushing
  /\ \E i, j \in DOMAIN trace :
       /\ trace[i].e = "cb" /\ ~ws[trace[i].w].deep
       /\ trace[i].x = Num(1) /\ trace[i].y = Num(0)
       /\ trace[j].e = "cb" /\ ws[trace[j].w].deep
       /\ trace[j].x = Num(1) /\ trace[j].y = Num(1)

\* C15: a write that changes a key has, when it returns, run every sync
\* watcher that depends on the key: its getter was evaluated, its callback
\* called with (the new value, the previous one), the new value stored; and
\* no sync watcher is ever put on the queue of the scheduler
C15_SyncBypassesScheduler ==
  [][\A w \in DOMAIN ws :
       /\ ws[w].sync =>
            /\ w \notin Range(queue') /\ w \notin has'
            /\ \A i \in DOMAIN trace' :
                 ~(trace'[i].e = "queue" /\ trace'[i].w = w)
       /\ (/\ op'.name = "write" /\ ws[w].sync /\ ws[w].active
           /\ op'.k \in ws[w].depIds /\ ~SameValue(op'.x, val[op'.k])) =>
            /\ \E i, j \in DOMAIN trace' :
                 /\ i < j
                 /\ trace'[i] = Ev("run", w, "", Undef, Undef)
                 /\ trace'[j] = Ev("get", w, "", Undef, Undef)
            /\ ws[w].getter = "a" =>
                 /\ CbCalls(trace', w) =
                      <<Ev("cb", w, "", op'.x, ws[w].value)>>
                 /\ ws'[w].value = op'.x
            /\ ws[w].getter = "sum" =>
                 /\ ws'[w].value = Plus(val'["a"], val'["b"])
                 /\ CbCalls(trace', w) =
                      IF StrictEq(ws'[w].value, ws[w].value) THEN <<>>
                      ELSE <<Ev("cb", w, "", ws'[w].value, ws[w].value)>>]_vars

\* a write has run the callback of a sync watcher and queued the watcher
\* without the option
C15_Witness ==
  /\ op.name = "write" /\ ~flushing
  /\ \E w \in DOMAIN ws :
       ws[w].sync /\ CbCalls(trace, w) # <<>> /\ ws[w].value = op.x
  /\ \E w \in Range(queue) : ~ws[w].sync /\ HasEvent("queue", w)

\* watcher w is in one of the subscriber lists sb
Subscribed(sb, w) == \E d \in Deps : w \in Range(sb[d])

InitOf(t, vm) ==
  LET evs == SelectSeq(t, LAMBDA ev :
               /\ ev.e \in {"init", "hook"}
               /\ ev.x = VmVal(vm)
               /\ ev.e = "hook" => ev.k \in {"beforeCreate", "created"})
  IN [i \in DOMAIN evs |-> evs[i].k]

Opt(b, step) == IF b THEN <<step>> ELSE <<>>

\* the order of _init for vm with its options
InitOrder(vm) ==
  <<"beforeCreate", "injections">> \o Opt(HasProps(vm), "props")
    \o Opt(HasMethods(vm), "methods") \o <<"data">>
    \o Opt(HasComputed(vm), "computed") \o Opt(vms[vm].watch, "watch")
    \o <<"provide", "created">>

\* C17: _init runs beforeCreate, then injections, props, methods, data,
\* computed, watch in this order, then provide, then created; it calls
\* $mount after created and only if the el option is set
C17_InitOrder ==
  \A vm \in VmIds :
    \/ InitOf(trace, vm) = <<>>
    \/ InitOf(trace, vm) = InitOrder(vm) \o Opt(op.name = "init"
                                                  /\ vms[vm].el, "$mount")

C17_Witness ==
  /\ op.name = "init" /\ vms["P"].el /\ vms["P"].watch
  /\ InitOf(trace, "P") = InitOrder("P") \o <<"$mount">>
  /\ InitOf(trace, "C") = InitOrder("C")
  /\ vms["C"]._isMounted


\* the places of the mounted hooks in the events t
MountedAt(t) == {i \in DOMAIN t : t[i].e = "hook" /\ t[i].k = "mounted"}

\* the instances above vm
Ancestors(vm) ==
  LET parent == vms[vm].parent
  IN IF parent = NoParent THEN {}
     ELSE {parent} \cup (IF vms[parent].parent = NoParent THEN {}
                         ELSE {vms[parent].parent})

\* the element under which the element of vm goes
ParentElm(vm) ==
  IF vms[vm].parent # NoParent THEN VmVal(vms[vm].parent)
  ELSE [t |-> "element", id |-> "body"]

\* C18: the mounted hook of a descendant fires before that of its parent
\* (grandchild, child, root), once for each instance that the patch made,
\* and after the element of the instance went under its parent element
C18_MountedBottomUp ==
  /\ \A i \in MountedAt(trace), j \in MountedAt(trace) :
       i < j => /\ trace[i].x # trace[j].x
                /\ trace[i].x.id \notin Ancestors(trace[j].x.id)
  /\ \A vm \in VmIds :
       (\E i \in DOMAIN trace : trace[i] = Ev("hook", 0, "beforeMount",
                                              VmVal(vm), Undef))
         => \E j \in MountedAt(trace) : trace[j].x = VmVal(vm)
  /\ \A j \in MountedAt(trace) :
       LET vm == trace[j].x.id
       IN (vms[vm].parent # NoParent \/ vms[vm].el)
            => \E i \in 1..(j - 1) :
                 trace[i] = Ev("insert", 0, vm, ParentElm(vm), Undef)

C18_Witness ==
  /\ op.name = "mount" /\ op.x.el
  /\ Cardinality(MountedAt(trace)) = 3
  /\ [i \in 1..3 |-> trace[CHOOSE j \in MountedAt(trace) :
         Cardinality({k \in MountedAt(trace) : k <= j}) = i].x.id]
       = <<"G", "C", "P">>


\* the watchers of instance vm in the watchers wl
WatchersOf(wl, vm) == {w \in DOMAIN wl : wl[w].vm = vm}

\* vm.$destroy() was called for an instance not yet being destroyed whose
\* rendered tree holds the live child component c
DestroysParent(vm, c) ==
  /\ op'.name = "destroy" /\ op'.k = vm
  /\ ~vms[vm]._isBeingDestroyed
  /\ vms[vm]._vnode # Undef
  /\ vms[vm].child = c
  /\ ~vms[c]._isBeingDestroyed

\* the events t hold a, b, c, d in this order, a first and d last
InOrder(t, a, b, c, d) ==
  \E i \in DOMAIN t, j \in DOMAIN t :
    /\ t[1] = a /\ t[i] = b /\ t[j] = c /\ t[Len(t)] = d
    /\ 1 < i /\ i < j /\ j < Len(t)

\* C19: P.$destroy() calls P.beforeDestroy, then removes P from the
\* $children of its parent, tears all watchers of P down and sets
\* P._isDestroyed, then C.beforeDestroy, C.destroyed and at last P.destroyed;
\* afterwards every watcher of P and of C is inactive
C19_DestroyOrder ==
  [][\A vm \in VmIds, c \in VmIds :
       DestroysParent(vm, c) =>
         /\ SelectSeq(trace', LAMBDA ev :
               ev.e = "hook" /\ ev.x \in {VmVal(vm), VmVal(c)})
              = <<Ev("hook", 0, "beforeDestroy", VmVal(vm), Undef),
                  Ev("hook", 0, "beforeDestroy", VmVal(c), Undef),
                  Ev("hook", 0, "destroyed", VmVal(c), Undef),
                  Ev("hook", 0, "destroyed", VmVal(vm), Undef)>>
         /\ InOrder(trace', Ev("hook", 0, "beforeDestroy", VmVal(vm), Undef),
                    Ev("isDestroyed", 0, "", VmVal(vm), Undef),
                    Ev("hook", 0, "beforeDestroy", VmVal(c), Undef),
                    Ev("hook", 0, "destroyed", VmVal(vm), Undef))
         /\ \A w \in WatchersOf(ws, vm) :
              ws[w].active =>
                \E i \in DOMAIN trace', j \in DOMAIN trace' :
                  /\ i < j
                  /\ trace'[i] = Ev("teardown", w, "", Undef, Undef)
                  /\ trace'[j] = Ev("isDestroyed", 0, "", VmVal(vm), Undef)
         /\ (vms[vm].parent # NoParent
               /\ ~vms[vms[vm].parent]._isBeingDestroyed)
              => \A i \in DOMAIN vms'[vms[vm].parent].children :
                   vms'[vms[vm].parent].children[i] # vm
         /\ vms'[vm]._isDestroyed /\ vms'[c]._isDestroyed
         /\ \A w \in WatchersOf(ws', vm) \cup WatchersOf(ws', c) :
              ~ws'[w].active]_vars

C19_Witness ==
  /\ op.name = "destroy" /\ op.k = "P"
  /\ Hooks = <<Hook("P", "beforeDestroy"), Hook("C", "beforeDestroy"),
               Hook("G", "beforeDestroy"), Hook("G", "destroyed"),
               Hook("C", "destroyed"), Hook("P", "destroyed")>>
  /\ Cardinality({i \in DOMAIN trace : trace[i].e = "teardown"}) = 5
  /\ \A w \in DOMAIN ws : ~ws[w].active
  /\ vms["P"].children = <<"C">> /\ vms["C"].children = <<"G">>


\* the places in the events t where a user function threw
ThrownAt(t) == {i \in DOMAIN t : t[i].e = "throw"}

\* the error thrown at place i of t went to the error handler
Handled(t, i) == i < Len(t) /\ t[i + 1].e = "error"

\* C20 as stated: no exception of a user function reaches the caller of
\* the operation of the core that called it
C20_Original == ret.t # "throw"

\* C20: an exception of a lifecycle hook, a data function, a render
\* function, a getter or a callback of a user watcher goes to the error
\* handler and reaches no caller; the exception of a computed getter is
\* thrown again by Watcher.get and reaches the caller of the computed
\* property, unless that caller is itself one of the former
C20_Caught ==
  /\ ret.t = "throw" => op.name = "readBad"
  /\ \A i \in ThrownAt(trace) :
       \/ Handled(trace, i)
       \/ /\ trace[i].k = "getter"
          /\ \E j \in 1..(i - 1) :
               /\ trace[j].e = "get" /\ ~ws[trace[j].w].user
               /\ \A n \in (j + 1)..(i - 1) : trace[n].e # "get"
          /\ \/ op.name = "readBad" /\ ret.t = "throw"
             \/ \E j \in (i + 1)..Len(trace) :
                  trace[j] = Ev("error", 0, "getter", Throw("Error"), Undef)

C20_Witness ==
  /\ op.name = "flush" /\ ret.t # "throw"
  /\ \E i \in ThrownAt(trace), j \in ThrownAt(trace) :
       /\ i < j /\ trace[i].k = "getter" /\ trace[j].k = "callback"
       /\ Handled(trace, i) /\ Handled(trace, j)

----------------------------------------------------------------------------
(* The patch function of core/vdom/patch.js over a host document.  The     *)
(* document and the vnodes are the record d: d.nodes[n] is the DOM node n, *)
(* d.vn[v] the vnode object v, d.log the host operations, hooks and        *)
(* warnings in order, d.ret the completion of the call.  0 stands for an   *)
(* undefined vnode and a null node.  The vnodes are plain elements, text   *)
(* and comments: no component, async placeholder or static tree; a tree    *)
(* given to patch is made of vnodes that no earlier patch has seen, so     *)
(* that cloneVNode is never needed.  d.loops holds, for every call of      *)
(* updateChildren, what its loop did (observation only).                   *)

NoTag == ""    \* vnode.tag undefined
NoKey == ""    \* vnode.key undefined
NoText == ""   \* vnode.text undefined
TextTag == "#text"
CommentTag == "#comment"

DomEv(e, n, p, r) == [e |-> e, n |-> n, p |-> p, r |-> r]

domLog(d, e, n, p, r) == [d EXCEPT !.log = Append(@, DomEv(e, n, p, r))]

\* a TypeError or a DOMException ends the call
domRaise(d, e) == [domLog(d, "throw", 0, 0, e) EXCEPT !.ret = Throw(e)]

At(seq, i) == IF i \in DOMAIN seq THEN seq[i] ELSE 0

IndexOf(seq, x) == CHOOSE i \in DOMAIN seq : seq[i] = x

\* the host-DOM facade
nodeOps_parentNode(d, n) == d.nodes[n].parent

nodeOps_nextSibling(d, n) ==
  LET p == d.nodes[n].parent
  IN IF p = 0 THEN 0
     ELSE At(d.nodes[p].kids, IndexOf(d.nodes[p].kids, n) + 1)

\* the nodes with n taken out of its parent
Detach(nodes, n) ==
  IF nodes[n].parent = 0 THEN nodes
  ELSE [nodes EXCEPT ![nodes[n].parent].kids = remove(@, n), ![n].parent = 0]

NewNode(d, tag, text) ==
  [d EXCEPT !.nodes = Append(@, [tag |-> tag, text |-> text, parent |-> 0,
                                 kids |-> <<>>])]

nodeOps_createElement(d, tag) ==
  domLog(NewNode(d, tag, NoText), "createElement", Len(d.nodes) + 1, 0, 0)

nodeOps_createTextNode(d, text) ==
  domLog(NewNode(d, TextTag, text), "createTextNode", Len(d.nodes) + 1, 0, 0)

nodeOps_createComment(d, text) ==
  domLog(NewNode(d, CommentTag, text), "createComment", Len(d.nodes) + 1, 0, 0)

\* parent.insertBefore(n, ref): a ref that is no child of parent is a
\* NotFoundError, a null ref appends, n leaves the place it had
Place(d, parent, n, ref) ==
  LET r1 == IF ref = n THEN nodeOps_nextSibling(d, n) ELSE ref
      nodes1 == Detach(d.nodes, n)
      kids == nodes1[parent].kids
  IN [d EXCEPT !.nodes =
        [nodes1 EXCEPT ![parent].kids =
                         IF r1 = 0 THEN Append(kids, n)
                         ELSE InsertAt(kids, IndexOf(kids, r1), n),
                       ![n].parent = parent]]

nodeOps_insertBefore(d, parent, n, ref) ==
  IF ref # 0 /\ d.nodes[ref].parent # parent
  THEN domRaise(d, "NotFoundError")
  ELSE domLog(Place(d, parent, n, ref), "insertBefore", n, parent, ref)

nodeOps_appendChild(d, parent, n) ==
  domLog(Place(d, parent, n, 0), "appendChild", n, parent, 0)

nodeOps_removeChild(d, parent, n) ==
  IF d.nodes[n].parent # parent THEN domRaise(d, "NotFoundError")
  ELSE domLog([d EXCEPT !.nodes = Detach(@, n)], "removeChild", n, parent, 0)

\* node.textContent = text: the data of a text node; an element loses its
\* children and gets one text node unless text is empty
nodeOps_setTextContent(d, n, text) ==
  IF d.nodes[n].tag = TextTag
  THEN domLog([d EXCEPT !.nodes[n].text = text], "setTextContent", n, 0, text)
  ELSE LET kids == d.nodes[n].kids
           cleared == [m \in DOMAIN d.nodes |->
                         IF d.nodes[m].parent = n
                         THEN [d.nodes[m] EXCEPT !.parent = 0]
                         ELSE IF m = n THEN [d.nodes[m] EXCEPT !.kids = <<>>]
                         ELSE d.nodes[m]]
           d1 == [d EXCEPT !.nodes = cleared]
       IN domLog(IF text = NoText THEN d1
                 ELSE Place(NewNode(d1, TextTag, text), n, Len(d.nodes) + 1, 0),
                 "setTextContent", n, 0, text)

\* sameVnode that does not compare the keys
sameVnode_tagOnly(d, a, b) ==
  /\ d.vn[a].tag = d.vn[b].tag
  /\ d.vn[a].data = d.vn[b].data

\* sameVnode(a, b): reading a.key of an undefined vnode is a TypeError, which
\* the callers test with a = 0 before
sameVnode(d, a, b) ==
  /\ d.vn[a].key = d.vn[b].key
  /\ d.vn[a].tag = d.vn[b].tag
  /\ d.vn[a].isComment = d.vn[b].isComment
  /\ d.vn[a].data = d.vn[b].data

\* createKeyToOldIdx(children, beginIdx, endIdx): a later child with the same
\* key overwrites the entry of an earlier one
createKeyToOldIdx(d, children, beginIdx, endIdx) ==
  [key \in {d.vn[children[i]].key : i \in beginIdx..endIdx} \ {NoKey} |->
     CHOOSE i \in beginIdx..endIdx :
       /\ d.vn[children[i]].key = key
       /\ \A j \in beginIdx..endIdx : d.vn[children[j]].key = key => j <= i]

\* emptyNodeAt(elm): a vnode for the real element, with data {} and no child
emptyNodeAt(d, elm) ==
  [d EXCEPT !.vn = Append(@, [tag |-> d.nodes[elm].tag, key |-> NoKey,
                              text |-> NoText, data |-> TRUE, hasCh |-> TRUE,
                              ch |-> <<>>, elm |-> elm,
                              isComment |-> FALSE])]

\* removeNode(el)
removeNode(d, el) ==
  IF nodeOps_parentNode(d, el) # 0
  THEN nodeOps_removeChild(d, nodeOps_parentNode(d, el), el)
  ELSE d

\* insert(parent, elm, ref)
insert(d, parent, elm, ref) ==
  IF parent # 0
  THEN IF ref # 0
       THEN IF nodeOps_parentNode(d, ref) = parent
            THEN nodeOps_insertBefore(d, parent, elm, ref)
            ELSE d
       ELSE nodeOps_appendChild(d, parent, elm)
  ELSE d

\* checkDuplicateKeys(children): a warning for every key seen before
RECURSIVE checkLoop(_, _, _, _)
checkLoop(d, children, i, seenKeys) ==
  IF i > Len(children) THEN d
  ELSE LET key == d.vn[children[i]].key
       IN IF key = NoKey THEN checkLoop(d, children, i + 1, seenKeys)
          ELSE IF key \in seenKeys
          THEN checkLoop(domLog(d, "warn", children[i], 0, key), children,
                         i + 1, seenKeys)
          ELSE checkLoop(d, children, i + 1, seenKeys \cup {key})

checkDuplicateKeys(d, children) == checkLoop(d, children, 1, {})

\* invokeCreateHooks(vnode, insertedVnodeQueue): the create hooks of the
\* modules; the vnodes have no data.hook
invokeCreateHooks(d, v) == domLog(d, "create", v, 0, 0)

\* the element or text node of vnode v is made and bound to v.elm
newElement(d, v) ==
  [nodeOps_createElement(d, d.vn[v].tag) EXCEPT !.vn[v].elm = Len(d.nodes) + 1]

newText(d, v) ==
  [nodeOps_createTextNode(d, d.vn[v].text) EXCEPT
     !.vn[v].elm = Len(d.nodes) + 1]

\* a comment vnode: its text is the empty string, which createComment reads
newComment(d, v) ==
  [nodeOps_createComment(d, d.vn[v].text) EXCEPT
     !.vn[v].elm = Len(d.nodes) + 1]

insertVnode(d1, v, parentElm, refElm) ==
  insert(IF d1.vn[v].data THEN invokeCreateHooks(d1, v) ELSE d1,
         parentElm, d1.vn[v].elm, refElm)

\* createElm(vnode, insertedVnodeQueue, parentElm, refElm) and
\* createChildren(vnode, children, insertedVnodeQueue)
RECURSIVE createElm(_, _, _, _), createLoop(_, _, _)
domCreateChildren(d1, v) ==
  IF d1.vn[v].hasCh
  THEN createLoop(checkDuplicateKeys(d1, d1.vn[v].ch), v, 1)
  ELSE IF d1.vn[v].text # NoText
  THEN nodeOps_appendChild(nodeOps_createTextNode(d1, d1.vn[v].text),
                           d1.vn[v].elm, Len(d1.nodes) + 1)
  ELSE d1

createElm(d, v, parentElm, refElm) ==
  IF d.vn[v].tag # NoTag
  THEN insertVnode(domCreateChildren(newElement(d, v), v), v, parentElm,
                   refElm)
  ELSE IF d.vn[v].isComment
  THEN insertVnode(newComment(d, v), v, parentElm, refElm)
  ELSE insertVnode(newText(d, v), v, parentElm, refElm)

createLoop(d, v, i) ==
  IF i > Len(d.vn[v].ch) THEN d
  ELSE createLoop(createElm(d, d.vn[v].ch[i], d.vn[v].elm, 0), v, i + 1)

\* addVnodes(parentElm, refElm, vnodes, startIdx, endIdx, insertedVnodeQueue)
RECURSIVE addVnodes(_, _, _, _, _, _)
addVnodes(d, parentElm, refElm, vnodes, startIdx, endIdx) ==
  IF startIdx > endIdx THEN d
  ELSE addVnodes(createElm(d, vnodes[startIdx], parentElm, refElm),
                 parentElm, refElm, vnodes, startIdx + 1, endIdx)

\* invokeDestroyHook(vnode): the destroy hooks of the modules, then the
\* children; an undefined child is a TypeError
RECURSIVE domInvokeDestroyHook(_, _), destroyLoop(_, _, _)
domInvokeDestroyHook(d, v) ==
  IF Thrown(d) THEN d
  ELSE IF v = 0 THEN domRaise(d, "TypeError")
  ELSE destroyLoop(IF d.vn[v].data THEN domLog(d, "destroy", v, 0, 0) ELSE d,
                   v, 1)

destroyLoop(d, v, j) ==
  IF ~d.vn[v].hasCh \/ j > Len(d.vn[v].ch) THEN d
  ELSE destroyLoop(domInvokeDestroyHook(d, d.vn[v].ch[j]), v, j + 1)

\* removeAndInvokeRemoveHook(vnode): the remove hooks of the modules call
\* rm() at once, and the last call removes the node
removeAndInvokeRemoveHook(d, v) ==
  IF d.vn[v].data
  THEN removeNode(domLog(d, "remove", v, 0, 0), d.vn[v].elm)
  ELSE removeNode(d, d.vn[v].elm)

\* removeVnodes(vnodes, startIdx, endIdx)
RECURSIVE removeVnodes(_, _, _, _)
removeVnodes(d, vnodes, startIdx, endIdx) ==
  IF startIdx > endIdx \/ Thrown(d) THEN d
  ELSE LET ch == vnodes[startIdx]
       IN removeVnodes(IF ch = 0 THEN d
                       ELSE IF d.vn[ch].tag # NoTag
                       THEN domInvokeDestroyHook(
                              removeAndInvokeRemoveHook(d, ch), ch)
                       ELSE removeNode(d, d.vn[ch].elm),
                       vnodes, startIdx + 1, endIdx)

\* isPatchable(vnode): a vnode of no component is patchable if it has a tag
isPatchable(d, v) == d.vn[v].tag # NoTag

\* the update hooks of the modules
invokeUpdateHooks(d, o, v) ==
  IF d.vn[v].data /\ isPatchable(d, v) THEN domLog(d, "update", v, 0, o) ELSE d

\* findIdxInOld(node, oldCh, start, end): end is not looked at
findIdxInOld(d, node, oldCh, start, end) ==
  LET found == {i \in start..(end - 1) :
                  oldCh[i] # 0 /\ sameVnode(d, node, oldCh[i])}
  IN IF found = {} THEN 0
     ELSE CHOOSE i \in found : \A j \in found : i <= j

\* the indices and vnodes updateChildren keeps while it runs
Ends(d, o, v, removeOnly) ==
  [oldStartIdx |-> 1, oldEndIdx |-> Len(d.vn[o].ch),
   newStartIdx |-> 1, newEndIdx |-> Len(d.vn[v].ch),
   oldStartVnode |-> At(d.vn[o].ch, 1),
   oldEndVnode |-> At(d.vn[o].ch, Len(d.vn[o].ch)),
   hasMap |-> FALSE, oldKeyToIdx |-> <<>>,
   canMove |-> ~removeOnly, id |-> Len(d.loops) + 1]

\* the old and new children the loop has not yet dealt with
Left(L) ==
  [old |-> L.oldEndIdx - L.oldStartIdx + 1,
   new |-> L.newEndIdx - L.newStartIdx + 1]

\* observation: a call of updateChildren begins, a pass of its loop begins,
\* the loop is left
loopBegins(d, o, v) ==
  [d EXCEPT !.loops = Append(@, [old |-> Len(d.vn[o].ch),
                                 new |-> Len(d.vn[v].ch),
                                 passes |-> <<>>, left |-> <<>>])]

passBegins(d, L) == [d EXCEPT !.loops[L.id].passes = Append(@, Left(L))]

loopEnds(d, L) == [d EXCEPT !.loops[L.id].left = <<Left(L)>>]

\* the condition of the loop with < for <=
inLoop_strict(L) ==
  L.oldStartIdx < L.oldEndIdx /\ L.newStartIdx < L.newEndIdx

\* while (oldStartIdx <= oldEndIdx && newStartIdx <= newEndIdx)
inLoop(L) ==
  L.oldStartIdx <= L.oldEndIdx /\ L.newStartIdx <= L.newEndIdx

oldStartNext(d, o, L) ==
  [L EXCEPT !.oldStartIdx = @ + 1,
            !.oldStartVnode = At(d.vn[o].ch, L.oldStartIdx + 1)]

oldEndNext(d, o, L) ==
  [L EXCEPT !.oldEndIdx = @ - 1,
            !.oldEndVnode = At(d.vn[o].ch, L.oldEndIdx - 1)]

newStartNext(L) == [L EXCEPT !.newStartIdx = @ + 1]

newEndNext(L) == [L EXCEPT !.newEndIdx = @ - 1]

\* oldKeyToIdx is made at the first lookup, over the old children not yet
\* matched
withMap(d, o, L) ==
  IF L.hasMap THEN L
  ELSE [L EXCEPT !.hasMap = TRUE,
                 !.oldKeyToIdx = createKeyToOldIdx(d, d.vn[o].ch,
                                   L.oldStartIdx, L.oldEndIdx)]

\* idxInOld of the key-lookup branch, 0 if undefined
idxInOld(d, o, newStartVnode, L) ==
  IF d.vn[newStartVnode].key # NoKey
  THEN IF d.vn[newStartVnode].key \in DOMAIN L.oldKeyToIdx
       THEN L.oldKeyToIdx[d.vn[newStartVnode].key]
       ELSE 0
  ELSE findIdxInOld(d, newStartVnode, d.vn[o].ch, L.oldStartIdx, L.oldEndIdx)

\* the old child at idxInOld is moved: its slot is cleared and its element
\* goes before the element of oldStartVnode
clearAndMove(d1, parentElm, o, idx, vnodeToMove, oldStartVnode, canMove) ==
  IF Thrown(d1) THEN d1
  ELSE IF canMove
  THEN nodeOps_insertBefore([d1 EXCEPT !.vn[o].ch[idx] = 0], parentElm,
                            d1.vn[vnodeToMove].elm, d1.vn[oldStartVnode].elm)
  ELSE [d1 EXCEPT !.vn[o].ch[idx] = 0]

\* canMove && nodeOps.insertBefore(...) that moves whatever canMove is
moveAfter_always(d1, parentElm, v, w, canMove) ==
  IF Thrown(d1) THEN d1
  ELSE nodeOps_insertBefore(d1, parentElm, d1.vn[v].elm,
                            nodeOps_nextSibling(d1, d1.vn[w].elm))

\* canMove && nodeOps.insertBefore(parentElm, oldStartVnode.elm,
\* nodeOps.nextSibling(oldEndVnode.elm))
moveAfter(d1, parentElm, v, w, canMove) ==
  IF Thrown(d1) \/ ~canMove THEN d1
  ELSE nodeOps_insertBefore(d1, parentElm, d1.vn[v].elm,
                            nodeOps_nextSibling(d1, d1.vn[w].elm))

\* canMove && nodeOps.insertBefore(parentElm, oldEndVnode.elm,
\* oldStartVnode.elm)
moveBefore(d1, parentElm, v, w, canMove) ==
  IF Thrown(d1) \/ ~canMove THEN d1
  ELSE nodeOps_insertBefore(d1, parentElm, d1.vn[v].elm, d1.vn[w].elm)

\* after the loop: the new children left are added before the element of
\* the new child after them, or the old children left are removed
afterLoop(d, parentElm, o, v, L) ==
  IF L.oldStartIdx > L.oldEndIdx
  THEN addVnodes(d, parentElm,
                 IF At(d.vn[v].ch, L.newEndIdx + 1) = 0 THEN 0
                 ELSE d.vn[d.vn[v].ch[L.newEndIdx + 1]].elm,
                 d.vn[v].ch, L.newStartIdx, L.newEndIdx)
  ELSE IF L.newStartIdx > L.newEndIdx
  THEN removeVnodes(d, d.vn[o].ch, L.oldStartIdx, L.oldEndIdx)
  ELSE d

\* patchVnode(oldVnode, vnode, ...) and updateChildren(parentElm, oldCh,
\* newCh, ...): o and v are the vnodes whose children oldCh and newCh are
RECURSIVE patchVnode(_, _, _, _), updateLoop(_, _, _, _, _),
          lookup(_, _, _, _, _, _)
updateChildren(d, parentElm, o, v, removeOnly) ==
  updateLoop(checkDuplicateKeys(loopBegins(d, o, v), d.vn[v].ch), parentElm,
             o, v, Ends(d, o, v, removeOnly))

patchChildren(d1, o, v, removeOnly) ==
  LET elm == d1.vn[v].elm
      oldCh == d1.vn[o].ch
      ch == d1.vn[v].ch
  IN IF d1.vn[v].text = NoText
     THEN IF d1.vn[o].hasCh /\ d1.vn[v].hasCh
          THEN IF o # v THEN updateChildren(d1, elm, o, v, removeOnly)
               ELSE d1
          ELSE IF d1.vn[v].hasCh
          THEN addVnodes(IF d1.vn[o].text # NoText
                         THEN nodeOps_setTextContent(
                                checkDuplicateKeys(d1, ch), elm, NoText)
                         ELSE checkDuplicateKeys(d1, ch),
                         elm, 0, ch, 1, Len(ch))
          ELSE IF d1.vn[o].hasCh
          THEN removeVnodes(d1, oldCh, 1, Len(oldCh))
          ELSE IF d1.vn[o].text # NoText
          THEN nodeOps_setTextContent(d1, elm, NoText)
          ELSE d1
     ELSE IF d1.vn[o].text # d1.vn[v].text
     THEN nodeOps_setTextContent(d1, elm, d1.vn[v].text)
     ELSE d1

\* patchVnode without the test oldVnode === vnode
patchVnode_always(d, o, v, removeOnly) ==
  IF Thrown(d) THEN d
  ELSE patchChildren(
         invokeUpdateHooks([d EXCEPT !.vn[v].elm = d.vn[o].elm], o, v), o, v,
         removeOnly)

patchVnode(d, o, v, removeOnly) ==
  IF Thrown(d) \/ o = v THEN d
  ELSE patchChildren(
         invokeUpdateHooks([d EXCEPT !.vn[v].elm = d.vn[o].elm], o, v), o, v,
         removeOnly)

\* one pass of the loop for the indices L; d0 is the document before it.
\* patchVnode of a pair of children is called without removeOnly
updateLoop(d0, parentElm, o, v, L) ==
  LET d == IF Thrown(d0) \/ ~inLoop(L) THEN d0 ELSE passBegins(d0, L)
  IN
  IF Thrown(d) THEN d
  ELSE IF ~inLoop(L)
  THEN afterLoop(loopEnds(d, L), parentElm, o, v, L)
  ELSE IF L.oldStartVnode = 0
  THEN updateLoop(d, parentElm, o, v, oldStartNext(d, o, L))
  ELSE IF L.oldEndVnode = 0
  THEN updateLoop(d, parentElm, o, v, oldEndNext(d, o, L))
  ELSE IF sameVnode(d, L.oldStartVnode, d.vn[v].ch[L.newStartIdx])
  THEN updateLoop(patchVnode(d, L.oldStartVnode, d.vn[v].ch[L.newStartIdx],
                             FALSE),
                  parentElm, o, v, newStartNext(oldStartNext(d, o, L)))
  ELSE IF sameVnode(d, L.oldEndVnode, d.vn[v].ch[L.newEndIdx])
  THEN updateLoop(patchVnode(d, L.oldEndVnode, d.vn[v].ch[L.newEndIdx],
                             FALSE),
                  parentElm, o, v, newEndNext(oldEndNext(d, o, L)))
  ELSE IF sameVnode(d, L.oldStartVnode, d.vn[v].ch[L.newEndIdx])
  THEN updateLoop(moveAfter(patchVnode(d, L.oldStartVnode,
                                       d.vn[v].ch[L.newEndIdx], FALSE),
                            parentElm, L.oldStartVnode, L.oldEndVnode,
                            L.canMove),
                  parentElm, o, v, newEndNext(oldStartNext(d, o, L)))
  ELSE IF sameVnode(d, L.oldEndVnode, d.vn[v].ch[L.newStartIdx])
  THEN updateLoop(moveBefore(patchVnode(d, L.oldEndVnode,
                                        d.vn[v].ch[L.newStartIdx], FALSE),
                             parentElm, L.oldEndVnode, L.oldStartVnode,
                             L.canMove),
                  parentElm, o, v, newStartNext(oldEndNext(d, o, L)))
  ELSE lookup(d, parentElm, o, v, withMap(d, o, L),
              idxInOld(d, o, d.vn[v].ch[L.newStartIdx], withMap(d, o, L)))

\* the key-lookup branch: vnodeToMove = oldCh[idxInOld] is handed to
\* sameVnode as it is
lookup(d, parentElm, o, v, L, idx) ==
  IF idx = 0
  THEN updateLoop(createElm(d, d.vn[v].ch[L.newStartIdx], parentElm,
                            d.vn[L.oldStartVnode].elm),
                  parentElm, o, v, newStartNext(L))
  ELSE IF d.vn[o].ch[idx] = 0
  THEN domRaise(d, "TypeError")
  ELSE IF sameVnode(d, d.vn[o].ch[idx], d.vn[v].ch[L.newStartIdx])
  THEN updateLoop(clearAndMove(patchVnode(d, d.vn[o].ch[idx],
                                          d.vn[v].ch[L.newStartIdx], FALSE),
                               parentElm, o, idx, d.vn[o].ch[idx],
                               L.oldStartVnode, L.canMove),
                  parentElm, o, v, newStartNext(L))
  ELSE updateLoop(createElm(d, d.vn[v].ch[L.newStartIdx], parentElm,
                            d.vn[L.oldStartVnode].elm),
                  parentElm, o, v, newStartNext(L))

\* the result of patch
NodeVal(n) == [t |-> "node", n |-> n]

returnElm(d1, v) ==
  IF Thrown(d1) THEN d1 ELSE [d1 EXCEPT !.ret = NodeVal(d1.vn[v].elm)]

\* the old root is replaced: the new tree is created before the next
\* sibling of the old element, then the old one is removed
removeOld(d1, parentElm, oldVnode) ==
  IF parentElm # 0 THEN removeVnodes(d1, <<oldVnode>>, 1, 1)
  ELSE IF d1.vn[oldVnode].tag # NoTag THEN domInvokeDestroyHook(d1, oldVnode)
  ELSE d1

\* the old root removed before the new tree is created
replaceRoot_removeFirst(d, oldVnode, v) ==
  createElm(removeOld(d, nodeOps_parentNode(d, d.vn[oldVnode].elm), oldVnode),
            v, nodeOps_parentNode(d, d.vn[oldVnode].elm),
            nodeOps_nextSibling(d, d.vn[oldVnode].elm))

replaceRoot(d, oldVnode, v) ==
  removeOld(createElm(d, v, nodeOps_parentNode(d, d.vn[oldVnode].elm),
                      nodeOps_nextSibling(d, d.vn[oldVnode].elm)),
            nodeOps_parentNode(d, d.vn[oldVnode].elm), oldVnode)

\* patch(oldVnode, vnode, hydrating, removeOnly): old is a vnode, or a real
\* element if isRealElement
domPatch(d, old, isRealElement, v, removeOnly) ==
  IF v = 0
  THEN IF old # 0 THEN domInvokeDestroyHook(d, old) ELSE d
  ELSE IF old = 0
  THEN returnElm(createElm(d, v, 0, 0), v)
  ELSE IF isRealElement
  THEN returnElm(replaceRoot(emptyNodeAt(d, old), Len(d.vn) + 1, v), v)
  ELSE IF sameVnode(d, old, v)
  THEN returnElm(patchVnode(d, old, v, removeOnly), v)
  ELSE returnElm(replaceRoot(d, old, v), v)

----------------------------------------------------------------------------
(* The trees given to patch: a root element whose children are drawn from  *)
(* a few kinds of vnode.  A kind is a keyed <li> named by its key, "P" a   *)
(* <p> with the key A, "T" a text vnode; alt changes the content of every  *)
(* kind: another text, children lost or gained.                            *)

MaxKids == 3   \* children of a root
NKeys == 4     \* keys of a permuted list

KeyNames == <<"A", "B", "C", "D", "E", "F">>

Kinds == {"A", "B", "P", "T"}

Content(kind, alt) ==
  CASE kind = "T" -> [tag |-> NoTag, key |-> NoKey,
                      txt |-> IF alt THEN "y" ELSE "x"]
    [] kind = "P" -> [tag |-> "p", key |-> "A",
                      txt |-> IF alt THEN NoText ELSE "x"]
    [] kind = "B" -> [tag |-> "li", key |-> "B",
                      txt |-> IF alt THEN "y" ELSE NoText]
    [] OTHER -> [tag |-> "li", key |-> kind, txt |-> IF alt THEN "y" ELSE "x"]

ChildLists(n) == UNION {[1..m -> Kinds] : m \in 0..n}

Perms(n) ==
  {p \in [1..n -> {KeyNames[i] : i \in 1..n}] :
     \A i \in 1..n, j \in 1..n : p[i] = p[j] => i = j}

NewVNode(tag, key, text, data, hasCh, ch) ==
  [tag |-> tag, key |-> key, text |-> text, data |-> data, hasCh |-> hasCh,
   ch |-> ch, elm |-> 0, isComment |-> FALSE]

\* the vnodes of a tree, the root first at base + 1, then its children, then
\* the text vnodes under them
TreeOf(base, rootTag, kinds, alt) ==
  LET n == Len(kinds)
      c(i) == Content(kinds[i], alt)
      hasTxt(i) == c(i).tag # NoTag /\ c(i).txt # NoText
      textId(i) == 1 + n + Cardinality({j \in 1..i : hasTxt(j)})
      total == 1 + n + Cardinality({j \in 1..n : hasTxt(j)})
  IN [k \in 1..total |->
        IF k = 1
        THEN NewVNode(rootTag, NoKey, NoText, TRUE, TRUE,
                   [i \in 1..n |-> base + 1 + i])
        ELSE IF k <= n + 1
        THEN IF c(k - 1).tag = NoTag
             THEN NewVNode(NoTag, NoKey, c(k - 1).txt, FALSE, FALSE, <<>>)
             ELSE NewVNode(c(k - 1).tag, c(k - 1).key, NoText, TRUE,
                        hasTxt(k - 1),
                        IF hasTxt(k - 1) THEN <<base + textId(k - 1)>>
                        ELSE <<>>)
        ELSE NewVNode(NoTag, NoKey,
                   c(CHOOSE i \in 1..n : hasTxt(i) /\ textId(i) = k).txt,
                   FALSE, FALSE, <<>>)]

\* the page: <body> holds the element to mount on and an element after it
Host ==
  <<[tag |-> "body", text |-> NoText, parent |-> 0, kids |-> <<2, 3>>],
    [tag |-> "div", text |-> NoText, parent |-> 1, kids |-> <<>>],
    [tag |-> "footer", text |-> NoText, parent |-> 1, kids |-> <<>>]>>

\* the first render: patch(vm.$el, vnode) on the real element
Mounted(kinds) ==
  LET d0 == [NoDom EXCEPT !.nodes = Host,
                          !.vn = TreeOf(0, "ul", kinds, FALSE)]
  IN [domPatch(d0, 2, TRUE, 1, FALSE) EXCEPT !.log = <<>>, !.root = 1]

\* the document before a call of patch with a new tree
WithTree(rootTag, kinds, alt) ==
  [dom EXCEPT !.vn = @ \o TreeOf(Len(dom.vn), rootTag, kinds, alt),
              !.log = <<>>, !.ret = Undef]

Rendered(d1, old, v) == [d1 EXCEPT !.old = old, !.root = v]

NoDomChange ==
  UNCHANGED <<val, subs, target, targetStack, ws, vms, queue, has, waiting,
              flushing, index, circular, heap, childOb, ret, trace, hist>>

\* vm._update(vnode): patch(prevVnode, vnode) with a new tree under <ul>
Patch(kinds, alt) ==
  /\ dom.root # 0 /\ dom.old = 0
  /\ dom' = Rendered(domPatch(WithTree("ul", kinds, alt), dom.root, FALSE,
                              Len(dom.vn) + 1, FALSE),
                     dom.root, Len(dom.vn) + 1)
  /\ op' = Op("patch", "ul", Undef)
  /\ NoDomChange

\* the new root is an <ol>: not the same vnode as the old root
Replace(kinds, alt) ==
  /\ dom.root # 0 /\ dom.old = 0
  /\ dom' = Rendered(domPatch(WithTree("ol", kinds, alt), dom.root, FALSE,
                              Len(dom.vn) + 1, FALSE),
                     dom.root, Len(dom.vn) + 1)
  /\ op' = Op("patch", "ol", Undef)
  /\ NoDomChange

\* patch(v, v)
PatchSame ==
  /\ dom.root # 0 /\ dom.old = 0
  /\ dom' = Rendered(domPatch([dom EXCEPT !.log = <<>>, !.ret = Undef],
                              dom.root, FALSE, dom.root, FALSE),
                     dom.root, dom.root)
  /\ op' = Op("patch", "same", Undef)
  /\ NoDomChange

\* patch(v, null)
PatchNone ==
  /\ dom.root # 0 /\ dom.old = 0
  /\ dom' = Rendered(domPatch([dom EXCEPT !.log = <<>>, !.ret = Undef],
                              dom.root, FALSE, 0, FALSE),
                     dom.root, 0)
  /\ op' = Op("patch", "null", Undef)
  /\ NoDomChange

InitPatch ==
  \E kinds \in ChildLists(MaxKids) :
    Hold(Blank, Num(0), Num(0)) /\ dom = Mounted(kinds)

NextPatch ==
  \/ /\ dom.old = 0
     /\ \E kinds \in ChildLists(MaxKids) : Patch(kinds, FALSE)
  \/ /\ dom.old = 0
     /\ \E kinds \in ChildLists(MaxKids - 1) : Patch(kinds, TRUE)
  \/ /\ dom.old = 0
     /\ \E kinds \in ChildLists(1), alt \in BOOLEAN : Replace(kinds, alt)
  \/ PatchSame
  \/ PatchNone

SpecPatch == InitPatch /\ [][NextPatch]_vars

InitKeyed ==
  \E kinds \in Perms(NKeys) :
    Hold(Blank, Num(0), Num(0)) /\ dom = Mounted(kinds)

NextKeyed ==
  /\ dom.old = 0
  /\ \E kinds \in Perms(NKeys) : Patch(kinds, FALSE)

SpecKeyed == InitKeyed /\ [][NextKeyed]_vars

----------------------------------------------------------------------------
(* An instance over the document: vm._render and vm._update with the patch *)
(* function above.  Here d also holds the globals of the renderer,         *)
(* d.activeInstance and d.currentRenderingInstance (NoParent for null);    *)
(* d.el is vm.$el and d.root is vm._vnode.                                 *)

VNodeVal(v) == [t |-> "vnode", v |-> v]

\* createEmptyVNode(): a comment vnode; its text, the empty string, is read
\* by createComment only
createEmptyVNode(d) ==
  [d EXCEPT !.vn = Append(@, [NewVNode(NoTag, NoKey, NoText, FALSE, FALSE,
                                       <<>>) EXCEPT !.isComment = TRUE]),
            !.ret = VNodeVal(Len(d.vn) + 1)]

\* vnode = render.call(vm._renderProxy, vm.$createElement): the render
\* function returns the tree that the state of the application gives, or
\* throws
renderCall(d, tree, throws) ==
  IF throws THEN domRaise(d, "Error")
  ELSE [d EXCEPT !.vn = @ \o tree, !.ret = VNodeVal(Len(d.vn) + 1)]

\* the catch clause of _render that leaves vnode undefined
renderCatch_undefined(d1) ==
  IF Thrown(d1)
  THEN [domLog(d1, "error", 0, 0, "render") EXCEPT !.ret = Undef]
  ELSE d1

\* the catch clause of _render: handleError(e, vm, `render`), then
\* vnode = vm._vnode
renderCatch(d1) ==
  IF Thrown(d1)
  THEN [domLog(d1, "error", 0, 0, "render") EXCEPT
          !.ret = IF d1.root = 0 THEN Undef ELSE VNodeVal(d1.root)]
  ELSE d1

\* the finally clause of _render
renderFinally(d1) == [d1 EXCEPT !.currentRenderingInstance = NoParent]

\* if (!(vnode instanceof VNode)) vnode = createEmptyVNode()
orEmpty(d1) == IF d1.ret.t # "vnode" THEN createEmptyVNode(d1) ELSE d1

\* Vue.prototype._render
_render(d, vm, tree, throws) ==
  orEmpty(
    renderFinally(
      renderCatch(
        renderCall([d EXCEPT !.currentRenderingInstance = vm], tree,
                   throws))))

\* setActiveInstance(vm)
setActiveInstance(d, vm) == [d EXCEPT !.activeInstance = vm]

\* _update after vm.__patch__: vm.$el = its result, then
\* restoreActiveInstance(); an exception of patch leaves _update before
\* either
afterPatch(d2, prevActiveInstance) ==
  IF Thrown(d2) THEN d2
  ELSE [d2 EXCEPT !.el = d2.ret.n, !.activeInstance = prevActiveInstance]

\* Vue.prototype._update
_update(d, vm, vnode) ==
  afterPatch(
    IF d.root = 0
    THEN domPatch([setActiveInstance(d, vm) EXCEPT !.root = vnode,
                                                   !.old = d.root],
                  d.el, TRUE, vnode, FALSE)
    ELSE domPatch([setActiveInstance(d, vm) EXCEPT !.root = vnode,
                                                   !.old = d.root],
                  d.root, FALSE, vnode, FALSE),
    d.activeInstance)

\* updateComponent of mountComponent: vm._update(vm._render(), hydrating);
\* d1 is the state that _render left
updateWithVnode(d1, vm) == _update(d1, vm, d1.ret.v)

updateComponent(d, vm, tree, throws) ==
  updateWithVnode(_render(d, vm, tree, throws), vm)

\* the page and an instance not yet mounted, with $el the element 2
Unmounted ==
  [nodes |-> Host, vn |-> <<>>, log |-> <<>>, ret |-> Undef, root |-> 0,
   old |-> 0, loops |-> <<>>, el |-> 2, activeInstance |-> NoParent,
   currentRenderingInstance |-> NoParent]

\* the render watcher of the instance runs: on $mount, and when the
\* scheduler runs it again
Render(kinds, alt, throws) ==
  /\ dom.old = 0
  /\ dom' = updateComponent([dom EXCEPT !.log = <<>>, !.ret = Undef], "P",
                            TreeOf(Len(dom.vn), "ul", kinds, alt), throws)
  /\ op' = Op("render", IF throws THEN "throws" ELSE "ul", Undef)
  /\ NoDomChange

\* update() of <transition-group>: this.__patch__(this._vnode, this.kept,
\* false, true), then this._vnode = this.kept
KeepOnly(kinds) ==
  /\ dom.old = 0 /\ dom.root # 0
  /\ dom' = Rendered(domPatch(WithTree("ul", kinds, FALSE), dom.root, FALSE,
                              Len(dom.vn) + 1, TRUE),
                     dom.root, Len(dom.vn) + 1)
  /\ op' = Op("patch", "removeOnly", Undef)
  /\ NoDomChange

InitRender == Hold(Blank, Num(0), Num(0)) /\ dom = Unmounted

NextRender ==
  \/ /\ dom.old = 0
     /\ \E kinds \in ChildLists(MaxKids) : Render(kinds, FALSE, FALSE)
  \/ /\ dom.old = 0
     /\ \E kinds \in ChildLists(1) : Render(kinds, TRUE, FALSE)
  \/ Render(<<>>, FALSE, TRUE)
  \/ /\ dom.old = 0 /\ dom.root # 0
     /\ \E kinds \in ChildLists(MaxKids - 1) : KeepOnly(kinds)

SpecRender == InitRender /\ [][NextRender]_vars

----------------------------------------------------------------------------
(* Option merging (util/options.js).  An options object is a record of the *)
(* keys the model follows: the lifecycle hook created, data, extends and   *)
(* mixins; a key that is absent is undefined (mixins: empty).  The result  *)
(* of mergeOptions is read as a parent only, so its extends and mixins     *)
(* are left out.                                                           *)

MaxHooks == 2   \* length of a hook array and of mixins

Fns == {"f", "g"}

Fn(name) == [t |-> "function", name |-> name]

ArrOf(items) == [t |-> "array", items |-> items]

ObjOf(f) == [t |-> "object", f |-> f]

\* dedupeHooks(hooks): the first occurrence of every function is kept
RECURSIVE dedupeLoop(_, _, _)
dedupeLoop(hooks, i, res) ==
  IF i > Len(hooks) THEN res
  ELSE dedupeLoop(hooks, i + 1,
                  IF \E j \in DOMAIN res : res[j] = hooks[i] THEN res
                  ELSE Append(res, hooks[i]))

dedupeHooks(hooks) == ArrOf(dedupeLoop(hooks.items, 1, <<>>))

\* Array.prototype.concat: an array argument is spread
concat(arr, x) ==
  ArrOf(arr.items \o (IF x.t = "array" THEN x.items ELSE <<x>>))

\* mergeHook without dedupeHooks
mergeHook_keepAll(parentVal, childVal) ==
  IF childVal # Undef
  THEN IF parentVal # Undef THEN concat(parentVal, childVal)
       ELSE IF childVal.t = "array" THEN childVal
       ELSE ArrOf(<<childVal>>)
  ELSE parentVal

\* mergeHook(parentVal, childVal)
mergeHook(parentVal, childVal) ==
  LET res == IF childVal # Undef
             THEN IF parentVal # Undef THEN concat(parentVal, childVal)
                  ELSE IF childVal.t = "array" THEN childVal
                  ELSE ArrOf(<<childVal>>)
             ELSE parentVal
  IN IF res # Undef THEN dedupeHooks(res) ELSE res

isPlainObject(v) == v.t = "object"

\* mergeData in which the value of from wins
RECURSIVE mergeData_fromWins(_, _)
mergeData_fromWins(to, from) ==
  IF from = Undef THEN to
  ELSE ObjOf([key \in DOMAIN to.f \cup DOMAIN from.f |->
                IF key \in DOMAIN from.f THEN from.f[key] ELSE to.f[key]])

\* mergeData(to, from): a key that to lacks is set on it; where both hold a
\* plain object the two are merged in turn; to is a plain object that is
\* not observed, so set() assigns.  Equal values are merged as well, which
\* gives the value itself
RECURSIVE mergeData(_, _)
mergeData(to, from) ==
  IF from = Undef THEN to
  ELSE ObjOf([key \in DOMAIN to.f \cup DOMAIN from.f |->
                IF key \notin DOMAIN to.f THEN from.f[key]
                ELSE IF key \in DOMAIN from.f
                        /\ isPlainObject(to.f[key])
                        /\ isPlainObject(from.f[key])
                THEN mergeData(to.f[key], from.f[key])
                ELSE to.f[key]])

\* a data function that returns obj, and the functions mergeDataOrFn makes
DataFn(obj) == [t |-> "function", name |-> "data", returns |-> obj]

MergedFn(name, parentVal, childVal) ==
  [t |-> "function", name |-> name, parentVal |-> parentVal,
   childVal |-> childVal]

\* mergeDataOrFn(parentVal, childVal, vm)
mergeDataOrFn(parentVal, childVal, vm) ==
  IF ~vm
  THEN IF childVal = Undef THEN parentVal
       ELSE IF parentVal = Undef THEN childVal
       ELSE MergedFn("mergedDataFn", parentVal, childVal)
  ELSE MergedFn("mergedInstanceDataFn", parentVal, childVal)

\* strats.data(parentVal, childVal, vm): without vm a child that is no
\* function is warned about and dropped
strats_data(parentVal, childVal, vm) ==
  IF ~vm /\ childVal # Undef /\ childVal.t # "function" THEN parentVal
  ELSE mergeDataOrFn(parentVal, childVal, vm)

\* fn.call(vm, vm) of a data function
RECURSIVE callData(_)
DataOf(x) == IF x.t = "function" THEN callData(x) ELSE x

callData(fn) ==
  CASE fn.name = "data" -> fn.returns
    [] fn.name = "mergedDataFn" ->
         mergeData(DataOf(fn.childVal), DataOf(fn.parentVal))
    [] fn.name = "mergedInstanceDataFn" ->
         IF DataOf(fn.childVal) # Undef
         THEN mergeData(DataOf(fn.childVal), DataOf(fn.parentVal))
         ELSE DataOf(fn.parentVal)

\* mergeField(key) for the keys of parent and of child
mergeFields(parent, child, vm) ==
  [created |-> mergeHook(parent.created, child.created),
   data |-> IF parent.data = Undef /\ child.data = Undef THEN Undef
            ELSE strats_data(parent.data, child.data, vm)]

\* mergeOptions(parent, child, vm): extends, then the mixins in order, are
\* merged into parent before the fields of child are
RECURSIVE mergeOptions(_, _, _), mergeMixins(_, _, _, _)
mergeOptions(parent, child, vm) ==
  mergeFields(mergeMixins(IF child.extends # Undef
                          THEN mergeOptions(parent, child.extends, vm)
                          ELSE parent,
                          child.mixins, 1, vm),
              child, vm)

mergeMixins(parent, mixins, i, vm) ==
  IF i > Len(mixins) THEN parent
  ELSE mergeMixins(mergeOptions(parent, mixins[i], vm), mixins, i + 1, vm)

\* the options of the model
OptionsOf(created, data, extends, mixins) ==
  [created |-> created, data |-> data, extends |-> extends,
   mixins |-> mixins]

FnSeqs(n) == UNION {[1..m -> {Fn(f) : f \in Fns}] : m \in 0..n}

\* a hook array as an earlier merge leaves it: no function twice
ParentHooks ==
  {Undef} \cup {ArrOf(s) : s \in {q \in FnSeqs(MaxHooks) :
                   \A i \in DOMAIN q, j \in DOMAIN q : q[i] = q[j] => i = j}}

ChildHooks ==
  {Undef} \cup {Fn(f) : f \in Fns} \cup {ArrOf(s) : s \in FnSeqs(MaxHooks)}

\* a mixin or an extended component with at most one hook function
Mixins == {OptionsOf(h, Undef, Undef, <<>>) : h \in {Undef} \cup {Fn(f) : f \in Fns}}

MixinSeqs == UNION {[1..m -> Mixins] : m \in 0..MaxHooks}

\* the data objects: a is a number, o a number or an object of numbers
Inner ==
  {ObjOf(f) : f \in UNION {[ks -> Nums] : ks \in SUBSET {"x", "y"}}}

DataObjs ==
  {ObjOf(f) : f \in {g \in UNION {[ks -> Nums \cup Inner] :
                                     ks \in SUBSET {"a", "o"}} :
                       "a" \in DOMAIN g => g["a"] \in Nums}}

NoMergeChange ==
  UNCHANGED <<val, subs, target, targetStack, ws, vms, queue, has, waiting,
              flushing, index, circular, heap, childOb, trace, hist, dom>>

\* mergeOptions(parent, child) on options with the hook created; every
\* merge starts from the options as they were declared
MergeHooks(parentVal, childVal, extends, mixins) ==
  /\ op.name = "init"
  /\ ret' = mergeOptions(OptionsOf(parentVal, Undef, Undef, <<>>),
                         OptionsOf(childVal, Undef, extends, mixins), FALSE)
  /\ op' = Op("mergeOptions", "created",
              [parent |-> parentVal, child |-> childVal, extends |-> extends,
               mixins |-> mixins])
  /\ NoMergeChange

\* mergeOptions(parent, child, vm) on options with data: Vue.extend and
\* Vue.mixin pass no vm, _init passes the instance
MergeData(parentVal, childVal, vm) ==
  /\ op.name = "init"
  /\ ret' = mergeOptions(OptionsOf(Undef, parentVal, Undef, <<>>),
                         OptionsOf(Undef, childVal, Undef, <<>>), vm)
  /\ op' = Op("mergeOptions", "data",
              [parent |-> parentVal, child |-> childVal, vm |-> vm])
  /\ NoMergeChange

InitMerge == Hold(Blank, Num(0), Num(0)) /\ dom = NoDom

NextMerge ==
  \/ /\ op.name = "init"
     /\ \E parentVal \in ParentHooks, childVal \in ChildHooks,
           extends \in {Undef} \cup Mixins, mixins \in MixinSeqs :
          MergeHooks(parentVal, childVal, extends, mixins)
  \/ /\ op.name = "init"
     /\ \E parentVal \in {Undef} \cup {DataFn(o) : o \in DataObjs},
           childVal \in {Undef} \cup DataObjs
                          \cup {DataFn(o) : o \in DataObjs},
           vm \in BOOLEAN :
          MergeData(parentVal, childVal, vm)

SpecMerge == InitMerge /\ [][NextMerge]_vars

----------------------------------------------------------------------------
(* Properties of patch *)

\* the keys of the children the tree under root was made with (the slots of
\* the array may have been cleared since)
ChildKeys(d, root) == [i \in 1..Len(d.vn[root].ch) |-> d.vn[root + i].key]

HasDuplicateKeys(d, root) ==
  \E i \in DOMAIN ChildKeys(d, root), j \in DOMAIN ChildKeys(d, root) :
    /\ i < j
    /\ ChildKeys(d, root)[i] # NoKey
    /\ ChildKeys(d, root)[i] = ChildKeys(d, root)[j]

\* the last call was patch(old, new) with both trees defined
PatchedTrees == op.name = "patch" /\ dom.old # 0 /\ dom.root # 0

\* the DOM subtree at node n is the tree of vnode v
RECURSIVE Iso(_, _, _)
Iso(d, v, n) ==
  /\ v # 0 /\ n # 0
  /\ d.vn[v].elm = n
  /\ IF d.vn[v].tag = NoTag
     THEN /\ d.nodes[n].tag = TextTag
          /\ d.nodes[n].text = d.vn[v].text
          /\ d.nodes[n].kids = <<>>
     ELSE /\ d.nodes[n].tag = d.vn[v].tag
          /\ Len(d.nodes[n].kids) = Len(d.vn[v].ch)
          /\ \A i \in DOMAIN d.vn[v].ch :
               /\ d.nodes[d.nodes[n].kids[i]].parent = n
               /\ Iso(d, d.vn[v].ch[i], d.nodes[n].kids[i])

\* C21: after patch(oldTree, newTree) the call has returned a node, and the
\* DOM subtree at that node is isomorphic to newTree: same tags and texts,
\* children in the order of the new children, every vnode.elm the node at
\* its place
C21_Isomorphic ==
  PatchedTrees => (dom.ret.t = "node" /\ Iso(dom, dom.root, dom.ret.n))

\* C24: a key that occurs twice among the old or the new children does not
\* make patch throw
C24_NoThrow ==
  (PatchedTrees /\ op.k = "ul"
     /\ (HasDuplicateKeys(dom, dom.old) \/ HasDuplicateKeys(dom, dom.root)))
    => ~Thrown(dom)

\* the host operations of the call, and the entries of its log with event e
DomOps ==
  {"createElement", "createTextNode", "insertBefore", "appendChild",
   "removeChild", "setTextContent"}

LogOf(d, es) == {i \in DOMAIN d.log : d.log[i].e \in es}

\* C22: patch(v, v) with one and the same vnode changes no node of the
\* document, issues no host operation, invokes no update and no destroy
\* hook, and returns v.elm
C22_Idempotent ==
  [][(op'.name = "patch" /\ op'.k = "same") =>
       /\ dom'.nodes = dom.nodes
       /\ LogOf(dom', DomOps \cup {"update", "destroy"}) = {}
       /\ dom'.ret = NodeVal(dom.vn[dom.root].elm)]_vars

C22_Witness ==
  /\ op.name = "patch" /\ op.k = "same"
  /\ dom.old = dom.root
  /\ dom.ret = NodeVal(dom.vn[dom.root].elm)
  /\ Len(dom.nodes[dom.ret.n].kids) = 2

\* the list s with its last element moved to the front
Rotated(s) == <<s[Len(s)]>> \o SubSeq(s, 1, Len(s) - 1)

\* the elements of the children the tree under root was made with
ChildElms(d, root) == [i \in 1..Len(d.vn[root].ch) |-> d.vn[root + i].elm]

\* C23: when the new children are a permutation of the old children (the
\* same distinct keys and tags), patch creates no node and removes none,
\* and every new child has the element of the old child with its key; when
\* the new list is the old one with its last child moved to the front, as
\* [D,A,B,C] is of [A,B,C,D], the DOM children are in the new order and
\* exactly one insertBefore was issued
C23_KeyedPermutation ==
  PatchedTrees =>
    /\ ~Thrown(dom)
    /\ LogOf(dom, {"createElement", "createTextNode", "removeChild"}) = {}
    /\ \A i \in DOMAIN ChildKeys(dom, dom.root),
          j \in DOMAIN ChildKeys(dom, dom.old) :
         ChildKeys(dom, dom.root)[i] = ChildKeys(dom, dom.old)[j]
           => ChildElms(dom, dom.root)[i] = ChildElms(dom, dom.old)[j]
    /\ ChildKeys(dom, dom.root) = Rotated(ChildKeys(dom, dom.old))
         => /\ dom.nodes[dom.vn[dom.root].elm].kids
                 = ChildElms(dom, dom.root)
            /\ Cardinality(LogOf(dom, DomOps)) = 1
            /\ Cardinality(LogOf(dom, {"insertBefore"})) = 1

C23_Witness ==
  /\ PatchedTrees
  /\ ChildKeys(dom, dom.old) = <<"A", "B", "C", "D">>
  /\ ChildKeys(dom, dom.root) = <<"D", "A", "B", "C">>
  /\ dom.nodes[dom.vn[dom.root].elm].kids = ChildElms(dom, dom.root)
  /\ ChildElms(dom, dom.root)[1] = ChildElms(dom, dom.old)[4]
  /\ Cardinality(LogOf(dom, {"insertBefore"})) = 1

\* the element vnodes of the tree under root: the root and its element
\* children
ElementVnodes(d, root) ==
  {root} \cup {root + i : i \in {j \in 1..Len(d.vn[root].ch) :
                                  d.vn[root + j].tag # NoTag}}

\* C25: when the new root is not the same vnode as the old root, the new
\* tree is created and its element is inserted into the parent of the old
\* element before the old element's next sibling, and the old element is
\* removed and the destroy hooks of the old tree run only after that; when
\* the new vnode is undefined, patch runs the destroy hooks of the old tree,
\* touches no node and returns nothing
C25_ReplaceThenRemove ==
  [][/\ (op'.name = "patch" /\ op'.k = "ol") =>
          \E i \in DOMAIN dom'.log, j \in DOMAIN dom'.log :
            /\ i < j
            /\ dom'.log[i] = DomEv("insertBefore", dom'.vn[dom'.root].elm,
                                   nodeOps_parentNode(dom, dom.vn[dom.root].elm),
                                   nodeOps_nextSibling(dom, dom.vn[dom.root].elm))
            /\ dom'.log[j] = DomEv("removeChild", dom.vn[dom.root].elm,
                                   nodeOps_parentNode(dom, dom.vn[dom.root].elm),
                                   0)
            /\ \A k \in LogOf(dom', {"createElement", "createTextNode",
                                      "appendChild", "create"}) : k < i
            /\ LogOf(dom', {"insertBefore", "removeChild"}) = {i, j}
            /\ \A k \in LogOf(dom', {"destroy"}) : j < k
            /\ {dom'.log[k].n : k \in LogOf(dom', {"destroy"})}
                 = ElementVnodes(dom, dom.root)
            /\ Iso(dom', dom'.root, dom'.ret.n)
            /\ nodeOps_nextSibling(dom', dom'.ret.n)
                 = nodeOps_nextSibling(dom, dom.vn[dom.root].elm)
     /\ (op'.name = "patch" /\ op'.k = "null") =>
          /\ dom'.nodes = dom.nodes
          /\ DOMAIN dom'.log = LogOf(dom', {"destroy"})
          /\ {dom'.log[k].n : k \in DOMAIN dom'.log}
               = ElementVnodes(dom, dom.root)
          /\ dom'.ret = Undef]_vars

C25_Witness ==
  /\ op.name = "patch" /\ op.k = "ol"
  /\ dom.ret.t = "node"
  /\ dom.nodes[dom.ret.n].tag = "ol"
  /\ dom.nodes[1].kids = <<dom.ret.n, 3>>
  /\ Len(dom.nodes[dom.ret.n].kids) = 1
  /\ Cardinality(LogOf(dom, {"destroy"})) = MaxKids + 1

----------------------------------------------------------------------------
(* Properties of option merging *)

\* the functions of a hook option, in order
HookList(x) ==
  IF x = Undef THEN <<>> ELSE IF x.t = "array" THEN x.items ELSE <<x>>

RECURSIVE MixinHooks(_, _)
MixinHooks(mixins, i) ==
  IF i > Len(mixins) THEN <<>>
  ELSE HookList(mixins[i].created) \o MixinHooks(mixins, i + 1)

\* the hooks a component inherits, and all hooks of a merge: those of the
\* parent, of extends, of the mixins, of the component itself
Inherited(x) ==
  HookList(IF x.extends = Undef THEN Undef ELSE x.extends.created)
    \o MixinHooks(x.mixins, 1)

AllHooks(x) == HookList(x.parent) \o Inherited(x) \o HookList(x.child)

FirstAt(list, f) ==
  CHOOSE i \in DOMAIN list :
    list[i] = f /\ \A j \in DOMAIN list : list[j] = f => i <= j

MergedHooks == op.name = "mergeOptions" /\ op.k = "created"

\* C26: the merged hook array holds the functions of the parent's array,
\* then those of extends, of the mixins and of the component, each once at
\* the place of its first occurrence; so a hook of extends or of a mixin
\* precedes a hook that only the component itself declares
C26_HookMerge ==
  MergedHooks =>
    IF op.x.parent = Undef /\ op.x.child = Undef /\ Inherited(op.x) = <<>>
    THEN ret.created = Undef
    ELSE /\ ret.created.t = "array"
         /\ \A i \in DOMAIN ret.created.items,
               j \in DOMAIN ret.created.items :
              /\ ret.created.items[i] = ret.created.items[j] => i = j
              /\ i < j => FirstAt(AllHooks(op.x), ret.created.items[i])
                            < FirstAt(AllHooks(op.x), ret.created.items[j])
         /\ Range(ret.created.items) = Range(AllHooks(op.x))
         /\ \A h \in Range(HookList(op.x.child)),
               m \in Range(Inherited(op.x)) :
              h \notin Range(HookList(op.x.parent) \o Inherited(op.x))
                => FirstAt(ret.created.items, m)
                     < FirstAt(ret.created.items, h)

C26_Witness ==
  /\ MergedHooks
  /\ op.x.parent = ArrOf(<<Fn("f")>>)
  /\ Inherited(op.x) = <<Fn("g"), Fn("f")>>
  /\ op.x.child = ArrOf(<<Fn("g"), Fn("f")>>)
  /\ ret.created = ArrOf(<<Fn("f"), Fn("g")>>)

\* r is c merged over p: every key of either, the value of c where c has
\* the key, but two plain objects under one key merged in the same way
RECURSIVE Merged(_, _, _)
Merged(r, c, p) ==
  IF c = Undef THEN r = p
  ELSE IF p = Undef THEN r = c
  ELSE /\ isPlainObject(r)
       /\ DOMAIN r.f = DOMAIN c.f \cup DOMAIN p.f
       /\ \A key \in DOMAIN r.f :
            IF key \notin DOMAIN c.f THEN r.f[key] = p.f[key]
            ELSE IF key \in DOMAIN p.f /\ isPlainObject(c.f[key])
                    /\ isPlainObject(p.f[key])
            THEN Merged(r.f[key], c.f[key], p.f[key])
            ELSE r.f[key] = c.f[key]

\* the object a data option stands for
Produced(x) == IF x = Undef THEN Undef ELSE IF x.t = "function" THEN x.returns ELSE x

\* data options were merged, the child's being a function where one is
\* required (Vue.extend and Vue.mixin drop any other with a warning)
MergedDataFns ==
  /\ op.name = "mergeOptions" /\ op.k = "data"
  /\ op.x.parent # Undef \/ op.x.child # Undef
  /\ op.x.vm \/ op.x.child = Undef \/ op.x.child.t = "function"

\* C27: the merged data option is a function; called, it returns an object
\* with every key of the child's and of the parent's data, in which the
\* child's value wins where both have the key, except that two plain objects
\* are merged by the same rule
C27_DataMerge ==
  MergedDataFns =>
    /\ ret.data.t = "function"
    /\ Merged(callData(ret.data), Produced(op.x.child), Produced(op.x.parent))

C27_Witness ==
  /\ MergedDataFns
  /\ op.x.child = DataFn(ObjOf("o" :> ObjOf("x" :> Num(1))))
  /\ op.x.parent = DataFn(ObjOf("a" :> Num(0)
                                @@ "o" :> ObjOf("x" :> Num(0) @@ "y" :> Num(0))))
  /\ ret.data.name = "mergedDataFn"
  /\ callData(ret.data)
       = ObjOf("a" :> Num(0) @@ "o" :> ObjOf("x" :> Num(1) @@ "y" :> Num(0)))

----------------------------------------------------------------------------
(* Properties of the subscriptions *)

InSubs(sb, d, w) == w \in Range(sb[d])

DependsOn(wl, w, d) == d \in Range(wl[w].deps)

C29_NoDuplicateSubs == \A d \in Deps : NoDup(subs[d])

C29_Witness ==
  /\ op.name = "flush"
  /\ \E w \in DOMAIN ws, c \in DOMAIN ws, u \in DOMAIN ws :
       /\ ws[w].getter = "cond" /\ ws[c].lazy /\ ws[u].getter = "sum"
       /\ val["a"] # Num(0)
       /\ \E i \in DOMAIN trace : trace[i] = Ev("get", w, "", Undef, Undef)
       /\ \E i \in DOMAIN trace : trace[i] = Ev("get", u, "", Undef, Undef)
       /\ Range(subs["a"]) = {w, c, u}
       /\ Range(subs["b"]) = {c, u}

\* the Deps a getter reads when the keys hold the values v
ReadBy(getter, v) ==
  CASE getter = "cond" -> IF v["a"] = Num(0) THEN {"a", "b"} ELSE {"a"}
    [] OTHER -> {"a", "b"}

\* get() of watcher w ran in the call that led to the events t
Evaluated(t, w) == \E i \in DOMAIN t : t[i] = Ev("get", w, "", Undef, Undef)

\* C30: after get() of a watcher its newDeps and newDepIds are empty, its
\* deps are the Deps the getter has read, and it is in the subs of no Dep it
\* had read before and has not read now; a write to a Dep that is not among
\* the deps of a watcher does not call update() on it
C30_DepsAreThoseRead ==
  [][/\ \A w \in DOMAIN ws' :
          Evaluated(trace', w) =>
            /\ ws'[w].newDeps = <<>> /\ ws'[w].newDepIds = {}
            /\ Range(ws'[w].deps) = ReadBy(ws'[w].getter, val')
            /\ ws'[w].depIds = ReadBy(ws'[w].getter, val')
            /\ NoDup(ws'[w].deps)
            /\ \A d \in Deps :
                 (w \in DOMAIN ws /\ DependsOn(ws, w, d)
                    /\ d \notin ReadBy(ws'[w].getter, val'))
                   => ~InSubs(subs', d, w)
     /\ op'.name = "write" =>
          \A w \in DOMAIN ws :
            ~DependsOn(ws, w, op'.k)
              => \A i \in DOMAIN trace' :
                   trace'[i] # Ev("update", w, "", Undef, Undef)]_vars

C30_Witness ==
  /\ op.name = "write" /\ op.k = "b"
  /\ \E w \in DOMAIN ws :
       /\ ws[w].getter = "cond" /\ ws[w].active
       /\ ws[w].deps = <<"a">>
       /\ ~InSubs(subs, "b", w)
       /\ hist.lastW["a"] # Num(0)
       /\ \A i \in DOMAIN trace : trace[i] # Ev("update", w, "", Undef, Undef)
  /\ \E i \in DOMAIN trace : trace[i].e = "update"

----------------------------------------------------------------------------
(* Properties of the target stack *)

\* the top of the target stack st
TopOf(st) == IF st = <<>> THEN NoTarget ELSE st[Len(st)]

\* the call that led from s0 to s1 left the target stack as it found it
Balanced(s0, s1) == s1.targetStack = s0.targetStack /\ s1.target = s0.target

\* the states in which a nested call may begin: any watcher, or none, is
\* the current target
Entries == {pushTarget(Cur, t) : t \in {NoTarget} \cup DOMAIN ws}

\* C31: Dep.target is the top of the target stack, no target when the stack
\* is empty; every top-level call leaves the stack empty, and get() of any
\* watcher, callHook() of any instance and getData(), begun under any
\* target, leave the stack and the target as they were on entry, whether
\* the user function returns or throws
C31_TargetStack ==
  /\ target = TopOf(targetStack)
  /\ targetStack = <<>>
  /\ \A s0 \in Entries :
       /\ \A w \in DOMAIN ws : Balanced(s0, get(s0, w))
       /\ \A vm \in VmIds : Balanced(s0, callHook(s0, vm, "updated"))
       /\ \A vm \in VmIds : Balanced(s0, getData(s0, vm))

C31_Witness ==
  /\ op.name = "readBad" /\ ret = Throw("Error")
  /\ \E i \in DOMAIN trace : trace[i].e = "get" /\ ~ws[trace[i].w].user
  /\ \E i \in ThrownAt(trace) : ~Handled(trace, i)
  /\ targetStack = <<>> /\ target = NoTarget
  /\ \E w \in DOMAIN ws :
       /\ ws[w].getter = "boom" /\ ws[w].user
       /\ Thrown(Getter(pushTarget(Cur, w), w))
       /\ Balanced(Cur, get(Cur, w))

----------------------------------------------------------------------------
(* Properties of _render and _update *)

\* C35: after _update, whether it returned or an exception escaped from the
\* patch, activeInstance is what it was before the call
C35_ActiveInstanceRestored ==
  [][op'.name = "render" => dom'.activeInstance = dom.activeInstance]_vars

\* the entries of seq that are in S, in their order
Among(seq, S) == SelectSeq(seq, LAMBDA n : n \in S)

\* C36: with removeOnly, patch moves no element that was under the root
\* element before the call: every insertBefore and appendChild under the
\* root element places a node made in this call, and the children that
\* stay keep their order; a pair matched old-start/new-end or
\* old-end/new-start is patched and left where it is
C36_RemoveOnlyMovesNothing ==
  [][(op'.name = "patch" /\ op'.k = "removeOnly") =>
       LET elm == dom.vn[dom.root].elm
       IN /\ \A i \in LogOf(dom', {"insertBefore", "appendChild"}) :
               dom'.log[i].p = elm => dom'.log[i].n > Len(dom.nodes)
          /\ Among(dom'.nodes[elm].kids, Range(dom.nodes[elm].kids))
               = Among(dom.nodes[elm].kids, Range(dom'.nodes[elm].kids))]_vars

C36_Witness ==
  /\ op.name = "patch" /\ op.k = "removeOnly"
  /\ ~Thrown(dom)
  /\ ChildKeys(dom, dom.old) = <<"A", "B">>
  /\ ChildKeys(dom, dom.root) = <<"B", "A">>
  /\ ChildElms(dom, dom.root) = Rotated(ChildElms(dom, dom.old))
  /\ dom.nodes[dom.vn[dom.root].elm].kids = ChildElms(dom, dom.old)
  /\ {dom.log[i].n : i \in LogOf(dom, {"update"})}
       = {dom.root, dom.root + 1, dom.root + 2}
  /\ LogOf(dom, DomOps) = {}
  /\ dom.loops[1].passes = <<[old |-> 2, new |-> 2], [old |-> 1, new |-> 1]>>

----------------------------------------------------------------------------
(* Properties of the loop of updateChildren *)

\* what is left before each pass of the loop r, and after the loop
Steps(r) == r.passes \o r.left

HookRead(t, i) ==
  /\ i \in DOMAIN t /\ i > 1
  /\ t[i].e = "uses"
  /\ \/ t[i - 1].e = "hook"
     \/ t[i - 1].e = "init" /\ t[i - 1].k = "data"

\* the call that led from s0 to s1 added no subscriber to any Dep, no Dep to
\* any watcher, and left the target and the target stack as they were
NoNewSubscriber(s0, s1) ==
  /\ \A d \in Deps : Range(s1.subs[d]) \subseteq Range(s0.subs[d])
  /\ \A w \in DOMAIN s0.ws :
       /\ s1.ws[w].newDepIds \subseteq s0.ws[w].newDepIds
       /\ s1.ws[w].depIds \subseteq s0.ws[w].depIds
  /\ s1.target = s0.target
  /\ s1.targetStack = s0.targetStack

\* C32: the reads of reactive properties that the user code of a lifecycle
\* hook or of a data function makes are made with no target, also when the
\* hook runs while a watcher is evaluating (the created and mounted hooks
\* of the child run while the render watcher of the parent evaluates); a
\* hook or a data function called under any target adds no subscriber to
\* any Dep and leaves the target that was current; and the prop n, which only
\* the child reads in a getter, has no watcher of another instance among
\* its subscribers unless an immediate watch handler read it
C32_HooksSubscribeNothing ==
  /\ \A i \in DOMAIN trace : HookRead(trace, i) => trace[i].w = NoTarget
  /\ \A s0 \in Entries : \A vm \in VmIds :
       /\ \A h \in {"created", "mounted", "updated"} :
            NoNewSubscriber(s0, callHook(s0, vm, h))
       /\ NoNewSubscriber(s0, getData(s0, vm))
  /\ ~vms["C"].watch => \A w \in Range(subs["n"]) : ws[w].vm = "C"

\* the root was mounted: while its render watcher evaluated, the data
\* function, the created hook and the mounted hook of the child read n;
\* the render watcher of the child is the only subscriber of n
C32_Witness ==
  /\ op.name = "mount"
  /\ vms["C"].reads /\ ~vms["C"].watch
  /\ \E g, d, i, j, m \in DOMAIN trace :
       /\ g < d /\ d < i /\ i < j /\ j < m
       /\ trace[g].e = "get" /\ trace[g].w = vms["P"]._watcher
       /\ trace[d].e = "init" /\ trace[d].k = "data"
       /\ trace[d].x = VmVal("C") /\ HookRead(trace, d + 1)
       /\ trace[i] = Hook("C", "created") /\ HookRead(trace, i + 1)
       /\ trace[j] = Hook("C", "mounted") /\ HookRead(trace, j + 1)
       /\ trace[m] = Hook("P", "mounted")
  /\ Range(subs["n"]) = {vms["C"]._watcher}
  /\ target = NoTarget

\* C33: in every instance that has a render watcher, the watchers of its
\* computed properties and of its watch option have smaller ids than the
\* render watcher; and the render watcher of a parent has a smaller id than
\* every watcher of the instances that its patch created.  (The watchers
\* with the user option are those of the watch options: the application
\* calls $watch on no instance)
C33_IdOrder ==
  \A vm \in VmIds : vms[vm]._watcher # 0 =>
    /\ \A w \in WatchersOf(ws, vm) :
         ws[w].lazy \/ ws[w].user => w < vms[vm]._watcher
    /\ \A c \in VmIds : vms[c].inited /\ vms[c].parent = vm =>
         \A w \in WatchersOf(ws, c) : vms[vm]._watcher < w

\* the root with a computed property and a watch option was mounted and its
\* patch made the child, which has a watch option and a render watcher
C33_Witness ==
  /\ op.name = "mount"
  /\ \E c, u, r, cu, cr \in DOMAIN ws :
       /\ c < u /\ u < r /\ r < cu /\ cu < cr
       /\ ws[c].vm = "P" /\ ws[c].lazy /\ vms["P"].sum = c
       /\ ws[u].vm = "P" /\ ws[u].user
       /\ vms["P"]._watcher = r
       /\ ws[cu].vm = "C" /\ ws[cu].user
       /\ vms["C"]._watcher = cr /\ vms["C"].parent = "P"

\* the machine state with the trace of the flush so far
Now == [Cur EXCEPT !.trace = trace]

\* C34: run() of a watcher that is not active changes nothing and calls
\* nothing; after a watcher was torn down, no run(), no evaluation of its
\* getter and no call of its callback follows; and the pass of the flush
\* for a queued watcher that is not active (the render watcher of a child
\* that the update of its parent destroyed) leaves the instances, the
\* values, the subscriptions and the trace as they are
C34_InactiveRunsNothing ==
  /\ \A w \in DOMAIN ws : ~ws[w].active => run(Cur, w) = Cur
  /\ \A i, j \in DOMAIN trace :
       i < j /\ trace[i].e = "teardown" =>
         ~(trace[j].e \in {"run", "get", "cb"} /\ trace[j].w = trace[i].w)
  /\ flushing /\ index \in DOMAIN queue /\ ~ws[queue[index]].active =>
       runNext(Now) = Now

\* a flush ended in which the render watcher of the child, queued by a write
\* of n, was torn down while the render watcher of the parent ran, and did
\* not run
C34_Witness ==
  /\ op.name = "flush" /\ ~flushing
  /\ vms["C"]._isDestroyed /\ ~vms["P"]._isDestroyed
  /\ vms["C"]._watcher \in DOMAIN hist.base
  /\ \E i, j \in DOMAIN trace :
       /\ i < j
       /\ trace[i].e = "run" /\ trace[i].w = vms["P"]._watcher
       /\ trace[j].e = "teardown" /\ trace[j].w = vms["C"]._watcher
  /\ \A i \in DOMAIN trace :
       trace[i].e = "run" => trace[i].w # vms["C"]._watcher

\* C39: whatever $destroy calls an instance gets (from the application,
\* from its own beforeDestroy hook, through the destroy hook of its
\* placeholder), its beforeDestroy hook and its destroyed hook run once, and
\* the vmCount of the Observer of the root data is decremented once, from 1
\* to 0, and never negative
C39_DestroyOnce ==
  /\ \A vm \in VmIds :
       /\ hist.fired[vm].beforeDestroy <= 1
       /\ hist.fired[vm].destroyed <= 1
       /\ vms[vm]._isDestroyed =>
            /\ hist.fired[vm].beforeDestroy = 1
            /\ hist.fired[vm].destroyed = 1
  /\ heap["data"].vmCount >= 0
  /\ heap["data"].vmCount = IF vms["P"]._isDestroyed THEN 0 ELSE 1

\* C40: the user code that runs while a component is initialised (hooks, data
\* function, the handler of a watch option with immediate) reads reactive
\* properties with no target, so the watcher that is evaluating meanwhile
\* (the render watcher of the parent) becomes subscriber of no Dep through
\* them: the prop n of the child has only watchers of the child as
\* subscribers
C40_InitSubscribesNothing ==
  /\ \A i \in DOMAIN trace : trace[i].e = "uses" => trace[i].w = NoTarget
  /\ \A w \in Range(subs["n"]) : ws[w].vm = "C"

====
